---- MODULE Spec2Model ----
(***************************************************************************)
(* Workflow Orchestration Engine: WorkflowEngine (orchestration/           *)
(* workflow-engine.js), SessionManager (orchestration/session-manager.js), *)
(* the agent registry AGENT_CONFIGS, the predefined workflows and the      *)
(* status machine of the PMS task store the engine creates its tasks in.   *)
(*                                                                         *)
(* One atomic action is one turn of the event loop: the code that runs     *)
(* between two awaits whose promise is settled by real I/O (dynamic        *)
(* import, git, the Claude CLI child process). An await that no I/O        *)
(* settles (the task store, a cached import, the promise of a settled      *)
(* agent) continues in the same turn, so its continuation belongs to the   *)
(* same action.                                                            *)
(***************************************************************************)
EXTENDS Integers, Sequences, FiniteSets, TLC

\* ---------------------------------------------------------------- bounds
MaxRuns == 2        \* Runs created in one behaviour (1 start + resumes)
MaxFailures == 1    \* failures of the git and PR collaborators
MaxFaulty == 1      \* agents whose process is not "ok"
MaxCancels == 1     \* cancelWorkflow calls
MaxRestarts == 1    \* times the process is stopped and started again
MaxStages == 4      \* stages of a definition handed to startWorkflow
MaxCheckpoints == 2 \* checkpoints written by direct calls of the Session Store
MaxRecords == 2     \* executions recorded by direct calls of the Session Store
MaxLogged == 1      \* log entries added by direct calls of the Session Store
MaxLogClock == 1003 \* the time of the last addLog call of a long log
MaxSessions == 3    \* Session files in the sessions directory at a cleanup
MaxDay == 3         \* the day of a cleanup; Sessions were updated on days 0..MaxDay
MaxOverrides == 1   \* agents with an override in the Model Selector's options
MaxTags == 3        \* agent tags in one request to the registry's functions

\* ------------------------------------------------------ program constants
MaxLogs == 1000     \* log entries a Session keeps (addLog)

\* ------------------------------------------------------- agent registry
AgentType ==
  {"PM", "ARCHITECT", "UIUX", "TL_FRONTEND", "TL_BACKEND", "DEV_FRONTEND",
   "DEV_BACKEND", "TEST", "CQR", "SR", "DOE"}

DevAgents == {"DEV_FRONTEND", "DEV_BACKEND"}

AGENT_CONFIGS ==
  [a \in AgentType |->
     [dependencies |->
        CASE a = "PM" -> {}
          [] a = "ARCHITECT" -> {"PM"}
          [] a = "UIUX" -> {"PM"}
          [] a = "TL_FRONTEND" -> {"ARCHITECT", "UIUX"}
          [] a = "TL_BACKEND" -> {"ARCHITECT"}
          [] a = "DEV_FRONTEND" -> {"TL_FRONTEND"}
          [] a = "DEV_BACKEND" -> {"TL_BACKEND"}
          [] OTHER -> DevAgents,
      defaultModel |->
        CASE a \in {"PM", "ARCHITECT", "SR"} -> "opus"
          [] a = "DOE" -> "haiku"
          [] OTHER -> "sonnet",
      maxRetries |-> 3]]

getAgentConfig(a) == AGENT_CONFIGS[a]

\* ------------------------------------------------------- model selector
ModelTier == {"opus", "sonnet", "haiku"}

MODEL_HIERARCHY == [t \in ModelTier |->
  CASE t = "haiku" -> 0 [] t = "sonnet" -> 1 [] OTHER -> 2]

Complexity == {"low", "high", "none"}    \* "none": context has no complexity

\* An enforceMaxTier that would hand the requested tier back as it is.
enforceNoMaxTier(opts, tier) == tier

enforceMaxTier(opts, tier) ==
  IF MODEL_HIERARCHY[tier] > MODEL_HIERARCHY[opts.maxTier]
    THEN opts.maxTier ELSE tier

downgrade(tier) ==
  IF MODEL_HIERARCHY[tier] <= 1 THEN "haiku" ELSE "sonnet"

\* An upgrade that would stop at sonnet.
upgradeToSonnet(tier) == "sonnet"

upgrade(tier) ==
  IF MODEL_HIERARCHY[tier] <= 0 THEN "sonnet" ELSE "opus"

\* selectModel(agentType, context) under the options opts; every registered
\* agent has a defaultModel, so the fallbacks after it are never taken.
selectModel(opts, agentType, complexity) ==
  IF opts.overrides[agentType] # "none"
    THEN enforceMaxTier(opts, opts.overrides[agentType])
    ELSE LET default == getAgentConfig(agentType).defaultModel
             selectedModel ==
               IF complexity = "low" /\ opts.optimizeCost
                 THEN downgrade(default)
               ELSE IF complexity = "high" THEN upgrade(default)
               ELSE default
         IN enforceMaxTier(opts, selectedModel)

getModelCliArg(tier) ==
  CASE tier = "haiku" -> "claude-3-haiku-20240307"
    [] tier = "opus" -> "claude-3-opus-20240229"
    [] OTHER -> "claude-sonnet-4-20250514"

\* getModelCliArgForAgent(agentType) under the options opts: the tier is
\* selected without a context, whatever the complexity of the run context.
getModelCliArgForAgent(opts, agentType, complexity) ==
  getModelCliArg(selectModel(opts, agentType, "none"))

\* ------------------------------------------------- workflow definitions
Stage(agents, mode) == [agents |-> agents, executionMode |-> mode]

FULL_APP_GENERATION ==
  [id |-> "FULL_APP_GENERATION",
   stages |-> << Stage(<<"PM">>, "sequential"),
                 Stage(<<"ARCHITECT", "UIUX">>, "parallel"),
                 Stage(<<"TL_FRONTEND", "TL_BACKEND">>, "parallel"),
                 Stage(<<"DEV_FRONTEND", "DEV_BACKEND">>, "parallel"),
                 Stage(<<"TEST", "CQR", "SR">>, "parallel"),
                 Stage(<<"DOE">>, "sequential") >>,
   createPR |-> TRUE, prFailureMode |-> "fail"]

FEATURE_ADDITION ==
  [id |-> "FEATURE_ADDITION",
   stages |-> << Stage(<<"PM">>, "sequential"),
                 Stage(<<"ARCHITECT", "UIUX">>, "parallel"),
                 Stage(<<"DEV_FRONTEND", "DEV_BACKEND">>, "parallel"),
                 Stage(<<"TEST", "CQR">>, "parallel") >>,
   createPR |-> TRUE, prFailureMode |-> "fail"]

BUG_FIX ==
  [id |-> "BUG_FIX",
   stages |-> << Stage(<<"PM">>, "sequential"),
                 Stage(<<"DEV_FRONTEND", "DEV_BACKEND">>, "parallel"),
                 Stage(<<"TEST">>, "sequential") >>,
   createPR |-> TRUE, prFailureMode |-> "fail"]

REFACTORING ==
  [id |-> "REFACTORING",
   stages |-> << Stage(<<"ARCHITECT", "CQR">>, "parallel"),
                 Stage(<<"DEV_FRONTEND", "DEV_BACKEND">>, "parallel"),
                 Stage(<<"TEST", "CQR">>, "parallel") >>,
   createPR |-> TRUE, prFailureMode |-> "warn"]

TEST_GENERATION ==
  [id |-> "TEST_GENERATION",
   stages |-> << Stage(<<"TEST">>, "sequential"),
                 Stage(<<"TEST">>, "sequential") >>,
   createPR |-> TRUE, prFailureMode |-> "warn"]

CODE_REVIEW ==
  [id |-> "CODE_REVIEW",
   stages |-> << Stage(<<"CQR">>, "sequential"),
                 Stage(<<"ARCHITECT">>, "sequential") >>,
   createPR |-> FALSE, prFailureMode |-> "warn"]

SECURITY_AUDIT ==
  [id |-> "SECURITY_AUDIT",
   stages |-> << Stage(<<"SR">>, "sequential"),
                 Stage(<<"ARCHITECT", "SR">>, "parallel") >>,
   createPR |-> FALSE, prFailureMode |-> "fail"]

PREDEFINED_WORKFLOWS ==
  {FULL_APP_GENERATION, FEATURE_ADDITION, BUG_FIX, REFACTORING,
   TEST_GENERATION, CODE_REVIEW, SECURITY_AUDIT}

\* A definition object handed to startWorkflow by a caller (it is not in
\* the registry): a sequential stage of two agents, then one more stage,
\* a pull request at the end and no prFailureMode in its options ("none").
CUSTOM_SEQUENTIAL ==
  [id |-> "CUSTOM_SEQUENTIAL",
   stages |-> << Stage(<<"PM", "UIUX">>, "sequential"),
                 Stage(<<"ARCHITECT">>, "sequential") >>,
   createPR |-> TRUE, prFailureMode |-> "none"]

Definitions == PREDEFINED_WORKFLOWS \cup {CUSTOM_SEQUENTIAL}

Undefined == [id |-> "undefined"]

getWorkflow(workflowId) ==
  IF \E w \in PREDEFINED_WORKFLOWS : w.id = workflowId
    THEN CHOOSE w \in PREDEFINED_WORKFLOWS : w.id = workflowId
    ELSE Undefined

\* The definitions startWorkflow is called with.
Startable == {w \in Definitions : Len(w.stages) <= MaxStages}

DefinitionOf(workflowId) == CHOOSE w \in Definitions : w.id = workflowId

\* ------------------------------------------------------------- helpers
Range(seq) == {seq[k] : k \in 1..Len(seq)}

AgentsOf(def) ==
  UNION {Range(def.stages[k].agents) : k \in 1..Len(def.stages)}

\* An array of agent tags whose order is never read (completedAgents of a
\* Session and of a Checkpoint) is kept as a multiset: tag -> occurrences.
NoAgents == [a \in AgentType |-> 0]

Push(list, a) == [list EXCEPT ![a] = @ + 1]

ArrayFrom(set) == [a \in AgentType |-> IF a \in set THEN 1 ELSE 0]

Members(list) == {a \in AgentType : list[a] > 0}

\* ------------------------------------------------- PMS task store (pms)
\* The task of an AgentExecution is kept on the execution record: "none"
\* (no task created, taskId null) or the task's status.
isValidStatusTransition(currentStatus, newStatus) ==
  CASE currentStatus = "pending" -> newStatus \in {"in_progress", "blocked"}
    [] currentStatus = "in_progress" ->
         newStatus \in {"completed", "failed", "blocked"}
    [] currentStatus = "blocked" -> newStatus \in {"pending", "in_progress"}
    [] currentStatus = "completed" -> FALSE
    [] currentStatus = "failed" -> newStatus = "pending"
    [] OTHER -> FALSE

\* ------------------------------------------------------- Session Store
\* agentExecutions (metadata) holds, per agent, how many execution records
\* of each status recordAgentExecution has pushed; logs holds the `type` of
\* each log entry.
NoSession ==
  [id |-> "none", status |-> "none", workflowId |-> "undefined",
   checkpoints |-> <<>>,
   completedAgents |-> NoAgents, currentStage |-> 0,
   agentExecutions |-> [a \in AgentType |-> [completed |-> 0, failed |-> 0]],
   logs |-> <<>>, aliased |-> FALSE,
   complexity |-> "none"]    \* context.complexity

\* The id createSession draws (uuidv4): one Session is created.
SessionId == "session-1"

createSession(workflowId) ==
  [NoSession EXCEPT !.id = SessionId, !.status = "running",
                    !.workflowId = workflowId]

updateStatus(S, status) == [S EXCEPT !.status = status]

\* An addLog that would keep every entry.
addLogUncapped(S, type) == [S EXCEPT !.logs = Append(@, type)]

\* addLog(): push, then keep the last MaxLogs entries.
addLog(S, type) ==
  LET pushed == Append(S.logs, type)
  IN [S EXCEPT !.logs =
        IF Len(pushed) > MaxLogs
          THEN SubSeq(pushed, Len(pushed) - MaxLogs + 1, Len(pushed))
          ELSE pushed]

markFailed(S) == updateStatus(S, "failed")

markCompleted(S) == updateStatus(S, "completed")

\* A checkpoint() that would keep the newest checkpoint only.
checkpointLatestOnly(S, data) ==
  [S EXCEPT !.checkpoints =
              <<[stageIndex |-> data.stageIndex,
                 completedAgents |-> data.completedAgents]>>,
            !.currentStage = data.stageIndex + 1,
            !.completedAgents = data.completedAgents,
            !.aliased = TRUE]

\* checkpoint(): session.completedAgents becomes the very array stored in
\* the new checkpoint (aliased) until the session is reloaded from its file.
checkpoint(S, data) ==
  [S EXCEPT !.checkpoints =
              Append(@, [stageIndex |-> data.stageIndex,
                         completedAgents |-> data.completedAgents]),
            !.currentStage = data.stageIndex + 1,
            !.completedAgents = data.completedAgents,
            !.aliased = TRUE]

\* A recordAgentExecution that would leave completedAgents to checkpoint().
recordAgentExecutionOnly(S, agentType, status) ==
  [S EXCEPT !.agentExecutions[agentType][status] = @ + 1]

recordAgentExecution(S, agentType, status) ==
  LET pushed == status = "completed"
      n == Len(S.checkpoints)
  IN [S EXCEPT !.agentExecutions[agentType][status] = @ + 1,
               !.completedAgents = IF pushed THEN Push(@, agentType) ELSE @,
               !.checkpoints =
                  IF pushed /\ S.aliased /\ n > 0
                    THEN [@ EXCEPT ![n].completedAgents = Push(@, agentType)]
                    ELSE @]

\* A saveSession that would leave the log out of the file.
saveSessionWithoutLogs(S) == [S EXCEPT !.aliased = FALSE, !.logs = <<>>]

\* saveSession(): JSON.stringify of the Session; the text keeps the values
\* and not which arrays are one object.
saveSession(S) == [S EXCEPT !.aliased = FALSE]

\* loadSession(): JSON.parse of the file written by the last saveSession;
\* the parsed object shares no array with anything.
loadSession(S) == [S EXCEPT !.aliased = FALSE]

\* A restore() that would accept a failed Session without checkpoints.
restoreOutcomeLenient(S) ==
  IF S.status = "completed" THEN "completed" ELSE "restored"

\* restore(): "completed" and "no_checkpoints" are the two errors it throws.
restoreOutcome(S) ==
  IF S.status = "completed" THEN "completed"
  ELSE IF Len(S.checkpoints) = 0 /\ S.status = "failed" THEN "no_checkpoints"
  ELSE "restored"

NoCheckpoint == [stageIndex |-> -1, completedAgents |-> NoAgents, null |-> TRUE]

latestCheckpoint(S) ==
  IF Len(S.checkpoints) > 0
    THEN [stageIndex |-> S.checkpoints[Len(S.checkpoints)].stageIndex,
          completedAgents |-> S.checkpoints[Len(S.checkpoints)].completedAgents,
          null |-> FALSE]
    ELSE NoCheckpoint

restore(S) ==
  IF restoreOutcome(S) = "restored"
    THEN [loadSession(S) EXCEPT !.status = "running"]
    ELSE loadSession(S)

\* An isResumable that would look at the checkpoints only.
isResumableByCheckpoint(S) ==
  /\ S.status \in {"failed", "paused"}
  /\ Len(S.checkpoints) > 0

isResumable(S) ==
  /\ S.status \in {"failed", "paused"}
  /\ (Len(S.checkpoints) > 0 \/ Members(S.completedAgents) # {})

\* ------------------------------------------------------ Workflow Engine
VARIABLES
  runs,        \* every Run object ever created, by run id (1..Len(runs))
  activeRuns,  \* keys of engine.activeRuns, the live registry
  session,     \* the Session of the workflow (memory = file after each call)
  cancelling,  \* cancelWorkflow calls awaiting the branch deletion
  runner,      \* how the agent process behind the Agent Runner behaves
  loaded,      \* the lazily imported collaborators are cached (lines 37-99)
  failures,    \* failures of the git and PR collaborators so far
  restarts,    \* process restarts so far
  cancels,     \* cancelWorkflow calls made so far
  file,        \* the Session's file, as saveSession wrote it last
  modelSelector, \* the ModelSelector singleton: its options
  returned     \* the last call of a library function: arguments and result

vars ==
  <<runs, activeRuns, session, cancelling, runner, loaded, failures, restarts,
    cancels, file, modelSelector, returned>>

RunIds == 1..Len(runs)

Idle == [pc |-> "idle", exec |-> 0, dependencyOutputs |-> {},
         modelArg |-> "none"]

\* The Run object built by startWorkflow (lines 125-140) and by
\* resumeWorkflow (lines 622-637). context is kept as `outputs`, the agents
\* whose `<agent>_output` key it holds, and `retries`, its `<agent>_retries`
\* counters. agentExecutions is kept per agent, in push order; `inherited`
\* are the session's execution records a resumed Run starts its list with.
\* i is the loop variable of executeWorkflow, pc the place the Run's
\* startWorkflow/resumeWorkflow call has reached, proc the place each
\* spawnAndExecuteAgent call chain has reached.
NewRun(workflowId, options) ==
  [workflowId |-> workflowId, sessionId |-> SessionId, status |-> "running",
   outputs |-> {}, retries |-> [a \in AgentType |-> 0],
   currentStageIndex |-> 0,
   agentExecutions |-> [a \in AgentType |-> <<>>],
   inherited |-> NoSession.agentExecutions,
   completedAgents |-> {}, gitBranch |-> FALSE, options |-> options,
   complexity |-> "none",    \* context.complexity
   resumed |-> FALSE, startIndex |-> 0,
   pc |-> "created", i |-> 0, agentsToRun |-> <<>>, position |-> 0,
   proc |-> [a \in AgentType |-> Idle]]

\* The options handed to startWorkflow (run.ts lines 137-140). createPR is
\* false (--no-pr) in runs of two definitions only, one that asks for a pull
\* request and one that does not.
\* The complexity in the context handed to startWorkflow: "high" in runs of
\* one definition only.
RunComplexity(workflowId) ==
  IF workflowId = "CODE_REVIEW" THEN {"none", "high"} ELSE {"none"}

RunOptions(workflowId) ==
  {o \in [createBranch : BOOLEAN, createPR : BOOLEAN] :
     o.createPR \/ workflowId \in {"TEST_GENERATION", "CODE_REVIEW"}}

\* What is left in `runs` of a Run of an earlier process.
Gone ==
  [NewRun("undefined", [createBranch |-> FALSE, createPR |-> FALSE])
     EXCEPT !.pc = "gone"]

StageAt(def, i) == def.stages[i + 1]

\* gatherDependencyOutputs (lines 444-456).
gatherDependencyOutputs(R, agentType) ==
  {d \in getAgentConfig(agentType).dependencies : d \in R.outputs}

\* createTask as called on lines 332-341: the dependencies are the task ids
\* of the first completed execution of each dependency (an inherited record
\* has no task id); the store marks the task blocked when one of them is
\* not completed (task store lines 185-204).
createTaskStatus(R, agentType) ==
  LET done(d) == {k \in 1..Len(R.agentExecutions[d]) :
                    R.agentExecutions[d][k].status = "completed"}
      first(d) == CHOOSE k \in done(d) : \A j \in done(d) : k <= j
      deps == {d \in getAgentConfig(agentType).dependencies :
                 R.inherited[d].completed = 0 /\ done(d) # {}}
  IN IF \E d \in deps :
          R.agentExecutions[d][first(d)].task \notin {"none", "completed"}
       THEN "blocked" ELSE "pending"

\* spawnAndExecuteAgent lines 318-351: the dependency bundle, the task,
\* status running, the call of the Agent Runner.
createTaskAndExecute(R, agentType) ==
  LET e == R.proc[agentType].exec
  IN [R EXCEPT
        !.agentExecutions[agentType][e].task = createTaskStatus(R, agentType),
        !.agentExecutions[agentType][e].status = "running",
        !.proc[agentType].dependencyOutputs =
           gatherDependencyOutputs(R, agentType),
        !.proc[agentType].modelArg =
           getModelCliArgForAgent(modelSelector.options, agentType,
                                  R.complexity),
        !.proc[agentType].pc = "running"]

\* spawnAndExecuteAgent up to its first await that real I/O settles: the
\* execution record is pushed with status spawning (lines 285-314); the
\* awaits of lines 318-347 are dynamic imports the first time and settle
\* in the same turn of the event loop once the collaborators are cached.
spawnAndExecuteAgent(R, agentType) ==
  LET R1 == [R EXCEPT
               !.agentExecutions[agentType] =
                  Append(@, [status |-> "spawning", task |-> "none",
                             error |-> "none",
                             model |-> selectModel(modelSelector.options,
                                                   agentType, R.complexity)]),
               !.proc[agentType] =
                  [pc |-> "spawning",
                   exec |-> Len(R.agentExecutions[agentType]) + 1,
                   dependencyOutputs |-> {}, modelArg |-> "none"]]
  IN IF loaded THEN createTaskAndExecute(R1, agentType) ELSE R1

RECURSIVE SpawnAll(_, _)
SpawnAll(R, agents) ==
  IF agents = <<>> THEN R
  ELSE SpawnAll(spawnAndExecuteAgent(R, Head(agents)), Tail(agents))

\* The execution records Run R1 holds more than Run R.
Spawns(R, R1) ==
  LET RECURSIVE count(_)
      count(agents) ==
        IF agents = {} THEN 0
        ELSE LET a == CHOOSE x \in agents : TRUE
             IN Len(R1.agentExecutions[a]) - Len(R.agentExecutions[a])
                  + count(agents \ {a})
  IN count(AgentType)

\* The 'agent_spawned' entry each spawnAndExecuteAgent call adds to the
\* Session's log (lines 309-314), for the calls that led from R to R1.
RECURSIVE logSpawned(_, _)
logSpawned(S, n) ==
  IF n = 0 THEN S ELSE logSpawned(addLog(S, "agent_spawned"), n - 1)

\* A stage that would run all its agents, completed or not.
agentsUnfiltered(completedAgents, agents) == agents

\* executeStage line 260: the agents of the stage not completed yet.
agentsToRun(completedAgents, agents) ==
  SelectSeq(agents, LAMBDA a : a \notin completedAgents)

\* An executeStage that would start all the agents at once in either mode.
executeStageAtOnce(R, stage) ==
  LET todo == agentsToRun(R.completedAgents, stage.agents)
      R1 == [R EXCEPT !.agentsToRun = todo, !.position = 1, !.pc = "stage"]
  IN IF todo = <<>> THEN R1 ELSE SpawnAll(R1, todo)

\* executeStage up to its first await (lines 256-277).
executeStage(R, stage) ==
  LET todo == agentsToRun(R.completedAgents, stage.agents)
      R1 == [R EXCEPT !.agentsToRun = todo, !.position = 1, !.pc = "stage"]
  IN IF todo = <<>> THEN R1
     ELSE IF stage.executionMode = "parallel" THEN SpawnAll(R1, todo)
     ELSE spawnAndExecuteAgent(R1, todo[1])

\* Retry decision of the catch block (lines 423-424).
retryAllowed(retries, maxRetries) == retries < maxRetries

\* A resume that would go through the definition again from its first stage.
resumeFromStart(cp, S) == 0

\* A resume that would start again at the stage of the latest checkpoint.
resumeAtCheckpoint(cp, S) ==
  IF cp.null THEN S.currentStage ELSE cp.stageIndex

\* resumeWorkflow line 629: `checkpoint?.stageIndex + 1 || session.currentStage`
\* (NaN for a missing checkpoint and 0 are falsy).
resumeStageIndex(cp, S) ==
  IF cp.null \/ cp.stageIndex + 1 = 0 THEN S.currentStage
  ELSE cp.stageIndex + 1

\* A stage that would never reject (the failure of an agent swallowed).
stageNeverRejects(R) == FALSE

\* Promise.all (parallel) rejects when the first agent's final failure
\* arrives; the sequential loop rejects when the awaited agent fails.
stageRejected(R) ==
  \E k \in 1..Len(R.agentsToRun) : R.proc[R.agentsToRun[k]].pc = "threw"

\* A stage that would resolve with its first resolved agent (Promise.any).
stageResolvedByAny(R) ==
  \E k \in 1..Len(R.agentsToRun) : R.proc[R.agentsToRun[k]].pc = "done"

\* Promise.all resolves when every agent has resolved; the sequential loop
\* ends when the last agent has resolved.
stageResolved(R) ==
  \A k \in 1..Len(R.agentsToRun) : R.proc[R.agentsToRun[k]].pc = "done"

\* The definition a Run executes: the object given to startWorkflow, or the
\* registry entry resumeWorkflow looked up.
RunDef(R) ==
  IF R.resumed THEN getWorkflow(R.workflowId) ELSE DefinitionOf(R.workflowId)

StageOf(R) == StageAt(RunDef(R), R.currentStageIndex)

\* startWorkflow/resumeWorkflow catch block (lines 183-197, 660-669).
failWorkflow(P) ==
  [run |-> [P.run EXCEPT !.status = "failed", !.pc = "raised"],
   session |-> markFailed(P.session)]

\* startWorkflow lines 170-199 / resumeWorkflow lines 654-671.
completeWorkflow(P) ==
  [run |-> [P.run EXCEPT !.status = "completed", !.pc = "returned"],
   session |-> markCompleted(P.session)]

\* The condition guarding createWorkflowPR (lines 166, 650).
wantsPR(R) == RunDef(R).createPR /\ R.gitBranch

\* executeWorkflow (lines 206-249) from the top of loop iteration R.i up to
\* the next await that real I/O settles: a stage with nothing to run is
\* checkpointed at once. P is the pair of the Run and the Session; the
\* resulting pc is "stage" (awaiting agents), "finalize" (loop left) or
\* "catch" (cancellation thrown).
RECURSIVE executeWorkflow(_)
executeWorkflow(P) ==
  LET R == P.run
      def == RunDef(R)
  IN IF R.i >= Len(def.stages) THEN [P EXCEPT !.run.pc = "finalize"]
     ELSE IF R.status = "cancelled" THEN [P EXCEPT !.run.pc = "catch"]
     ELSE LET R1 == executeStage([R EXCEPT !.currentStageIndex = R.i],
                                 StageAt(def, R.i))
              S1 == logSpawned(addLog(P.session, "stage_started"),
                               Spawns(R, R1))
          IN IF R1.agentsToRun # <<>> THEN [run |-> R1, session |-> S1]
             ELSE executeWorkflow(
                    [run |-> [R1 EXCEPT !.i = @ + 1],
                     session |->
                       checkpoint(S1,
                                  [stageIndex |-> R.i,
                                   completedAgents |->
                                     ArrayFrom(R1.completedAgents)])])

\* What follows `await this.executeWorkflow(run)` in startWorkflow and
\* resumeWorkflow, up to the next await.
afterExecuteWorkflow(P) ==
  CASE P.run.pc = "stage" -> P
    [] P.run.pc = "catch" -> failWorkflow(P)
    [] OTHER -> IF wantsPR(P.run) THEN [P EXCEPT !.run.pc = "pr"]
                ELSE completeWorkflow(P)

\* The continuation of `await this.executeStage(run, stage)` once the stage
\* resolved (lines 232-248), then the loop again.
stageCompleted(P) ==
  LET R == P.run
  IN afterExecuteWorkflow(executeWorkflow(
       [run |-> [R EXCEPT !.i = @ + 1],
        session |->
          checkpoint(P.session,
                     [stageIndex |-> R.i,
                      completedAgents |-> ArrayFrom(R.completedAgents)])]))

\* What the Run's pending call does, in the same turn of the event loop,
\* when one of its agents has settled: nothing while the stage is pending,
\* the next agent of a sequential stage, the checkpoint and the next
\* stage, or the catch block.
agentSettled(P) ==
  LET R == P.run
  IN IF R.pc # "stage" THEN P
     ELSE IF stageRejected(R) THEN failWorkflow(P)
     ELSE IF StageOf(R).executionMode = "parallel"
       THEN IF stageResolved(R) THEN stageCompleted(P) ELSE P
     ELSE IF R.proc[R.agentsToRun[R.position]].pc # "done" THEN P
     ELSE IF R.position < Len(R.agentsToRun)
       THEN [run |-> spawnAndExecuteAgent([R EXCEPT !.position = @ + 1],
                                          R.agentsToRun[R.position + 1]),
             session |-> logSpawned(P.session, 1)]
     ELSE stageCompleted(P)

\* spawnAndExecuteAgent's catch block (lines 396-435). failTask rejects a
\* task that is not in_progress (updateStatus, task store lines 109-135),
\* and that error leaves the catch block at once.
agentCatch(P, a) ==
  LET R == P.run
      e == R.proc[a].exec
      task == R.agentExecutions[a][e].task
      R1 == [R EXCEPT !.agentExecutions[a][e].status = "failed",
                      !.agentExecutions[a][e].error = "error"]
      failTaskOk == isValidStatusTransition(task, "failed")
      R2 == IF task # "none" /\ failTaskOk
              THEN [R1 EXCEPT !.agentExecutions[a][e].task = "failed"]
              ELSE R1
      S2 == recordAgentExecution(P.session, a, "failed")
  IN IF task # "none" /\ ~failTaskOk
       THEN [P EXCEPT !.run = [R1 EXCEPT !.proc[a].pc = "threw"]]
     ELSE IF retryAllowed(R2.retries[a], getAgentConfig(a).maxRetries)
       THEN [run |-> spawnAndExecuteAgent(
                       [R2 EXCEPT !.retries[a] = @ + 1], a),
             session |-> logSpawned(addLog(S2, "agent_retry"), 1)]
     ELSE [run |-> [R2 EXCEPT !.proc[a].pc = "threw"], session |-> S2]

\* An agentCompleted that would keep the last output under one shared key.
agentCompletedSharedKey(P, a) ==
  [run |-> [P.run EXCEPT !.outputs = {a},
                         !.completedAgents = @ \cup {a},
                         !.proc[a].pc = "done"],
   session |-> recordAgentExecution(P.session, a, "completed")]

\* spawnAndExecuteAgent lines 374-394: the output is folded into the
\* context and the execution recorded.
agentCompleted(P, a) ==
  [run |-> [P.run EXCEPT !.outputs = @ \cup {a},
                         !.completedAgents = @ \cup {a},
                         !.proc[a].pc = "done"],
   session |-> recordAgentExecution(P.session, a, "completed")]

\* spawnAndExecuteAgent from the runner's response (lines 359-372) to the
\* await of commitAgentArtifacts, or to the return when nothing is
\* committed. completeTask rejects a task that is not in_progress.
agentResponded(P, a, artifacts) ==
  LET R == P.run
      e == R.proc[a].exec
      task == R.agentExecutions[a][e].task
      R1 == [R EXCEPT !.agentExecutions[a][e].status = "completed"]
      R2 == [R1 EXCEPT !.agentExecutions[a][e].task = "completed"]
  IN IF ~isValidStatusTransition(task, "completed")
       THEN agentCatch([P EXCEPT !.run = R1], a)
     ELSE IF artifacts /\ R.gitBranch
       THEN [P EXCEPT !.run = [R2 EXCEPT !.proc[a].pc = "commit"]]
     ELSE agentCompleted([P EXCEPT !.run = R2], a)

\* The agent process behind the Agent Runner (claude-cli lines 52-129). A
\* process that is "ok" starts its task in the task store and resolves; a
\* "silent" one resolves without having touched the task store; a "faulty"
\* one starts its task and rejects (non-zero exit, timeout) on every
\* attempt, a "flaky" one on the first attempt a Run makes; a "dead" one
\* cannot be spawned, so it starts nothing and rejects every attempt.
startsTask(a) == runner[a] \notin {"silent", "dead"}

runnerRejects(R, a) ==
  \/ runner[a] \in {"faulty", "dead"}
  \/ runner[a] = "flaky" /\ R.retries[a] = 0

\* The process has got as far as it gets before it answers.
processDone(R, a) ==
  startsTask(a) =>
    R.agentExecutions[a][R.proc[a].exec].task \notin {"pending", "blocked"}

\* The assignments in which at most n of the given agents are not "ok".
RECURSIVE RunnersWith(_, _)
RunnersWith(agents, n) ==
  IF n = 0 THEN {[a \in AgentType |-> "ok"]}
  ELSE LET fewer == RunnersWith(agents, n - 1)
       IN fewer \cup
          UNION {{[f EXCEPT ![a] = m] :
                    m \in {"faulty", "flaky", "silent", "dead"}} :
                   <<f, a>> \in fewer \X agents}

Runners(def) == RunnersWith(AgentsOf(def), MaxFaulty)

\* ModelSelector's constructor (model-selector.js lines 58-64); an agent
\* without an override has "none" in the table.
DefaultOptions ==
  [maxTier |-> "opus", overrides |-> [a \in AgentType |-> "none"],
   optimizeCost |-> FALSE]

NoCall == [op |-> "none"]

Init ==
  /\ runs = <<>>
  /\ activeRuns = {}
  /\ session = NoSession
  /\ cancelling = <<>>
  /\ runner = [a \in AgentType |-> "ok"]
  /\ loaded = FALSE
  /\ failures = 0
  /\ restarts = 0
  /\ cancels = 0
  /\ file = NoSession
  /\ modelSelector = [options |-> DefaultOptions]
  /\ returned = NoCall

Pair(r) == [run |-> runs[r], session |-> session]

Store(r, P) ==
  /\ runs' = [runs EXCEPT ![r] = P.run]
  /\ session' = P.session

\* startWorkflow (lines 107-163) up to its first await.
StartWorkflow(def, complexity, options, f) ==
  /\ session.status = "none"
  /\ runs = <<>>
  /\ LET P0 == [run |-> [NewRun(def.id, options) EXCEPT
                           !.complexity = complexity],
                session |-> addLog([createSession(def.id) EXCEPT
                                      !.complexity = complexity],
                                   "workflow_started")]
         P == IF options.createBranch THEN [P0 EXCEPT !.run.pc = "branch"]
              ELSE afterExecuteWorkflow(executeWorkflow(P0))
     IN /\ runs' = <<P.run>>
        /\ session' = P.session
  /\ activeRuns' = {1}
  /\ runner' = f
  /\ UNCHANGED <<cancelling, loaded, failures, restarts, cancels,
                 modelSelector, returned>>
  /\ file' = saveSession(session')

\* createWorkflowBranch resolved (line 159), then executeWorkflow.
BranchCreated(r) ==
  /\ runs[r].pc = "branch"
  /\ Store(r, afterExecuteWorkflow(executeWorkflow(
                [Pair(r) EXCEPT !.run.gitBranch = TRUE])))
  /\ UNCHANGED <<activeRuns, cancelling, runner, loaded, failures, restarts, cancels,
                 modelSelector, returned>>
  /\ file' = saveSession(session')

\* createWorkflowBranch rejected: the catch block of startWorkflow.
BranchFailed(r) ==
  /\ runs[r].pc = "branch"
  /\ failures < MaxFailures
  /\ failures' = failures + 1
  /\ Store(r, failWorkflow(Pair(r)))
  /\ UNCHANGED <<activeRuns, cancelling, runner, loaded, restarts, cancels,
                 modelSelector, returned>>
  /\ file' = saveSession(session')

\* The imports awaited by a spawning agent are done: lines 318-351.
AgentCreateTask(r, a) ==
  /\ runs[r].proc[a].pc = "spawning"
  /\ runs' = [runs EXCEPT ![r] = createTaskAndExecute(runs[r], a)]
  /\ loaded' = TRUE
  /\ UNCHANGED <<activeRuns, session, cancelling, runner, failures, restarts, cancels,
                 file, modelSelector, returned>>

\* startTask of the task store (line 141), called for the task by the
\* agent process when it begins its work.
StartTask(r, a) ==
  /\ runs[r].proc[a].pc = "running"
  /\ startsTask(a)
  /\ LET e == runs[r].proc[a].exec
     IN /\ isValidStatusTransition(runs[r].agentExecutions[a][e].task,
                                   "in_progress")
        /\ runs' = [runs EXCEPT
                      ![r].agentExecutions[a][e].task = "in_progress"]
  /\ UNCHANGED <<activeRuns, session, cancelling, runner, loaded, failures,
                 restarts, cancels,
                 file, modelSelector, returned>>

\* The Agent Runner resolved; artifacts says whether the output carries
\* file artifacts.
RunnerResolved(r, a, artifacts) ==
  /\ runs[r].proc[a].pc = "running"
  /\ processDone(runs[r], a)
  /\ ~runnerRejects(runs[r], a)
  /\ Store(r, agentSettled(agentResponded(Pair(r), a, artifacts)))
  /\ UNCHANGED <<activeRuns, cancelling, runner, loaded, failures, restarts, cancels,
                 modelSelector, returned>>
  /\ file' = saveSession(session')

\* The Agent Runner rejected (failure or timeout).
RunnerRejected(r, a) ==
  /\ runs[r].proc[a].pc = "running"
  /\ processDone(runs[r], a)
  /\ runnerRejects(runs[r], a)
  /\ Store(r, agentSettled(agentCatch(Pair(r), a)))
  /\ UNCHANGED <<activeRuns, cancelling, runner, loaded, failures, restarts, cancels,
                 modelSelector, returned>>
  /\ file' = saveSession(session')

\* commitAgentArtifacts resolved (line 371).
CommitResolved(r, a) ==
  /\ runs[r].proc[a].pc = "commit"
  /\ Store(r, agentSettled(agentCompleted(Pair(r), a)))
  /\ UNCHANGED <<activeRuns, cancelling, runner, loaded, failures, restarts, cancels,
                 modelSelector, returned>>
  /\ file' = saveSession(session')

\* commitAgentArtifacts rejected: the catch block.
CommitRejected(r, a) ==
  /\ runs[r].proc[a].pc = "commit"
  /\ failures < MaxFailures
  /\ failures' = failures + 1
  /\ Store(r, agentSettled(agentCatch(Pair(r), a)))
  /\ UNCHANGED <<activeRuns, cancelling, runner, loaded, restarts, cancels,
                 modelSelector, returned>>
  /\ file' = saveSession(session')

\* createWorkflowPR resolved without an error (lines 499-510).
PRCreated(r) ==
  /\ runs[r].pc = "pr"
  /\ Store(r, completeWorkflow(
                [Pair(r) EXCEPT !.session = addLog(@, "pr_created")]))
  /\ UNCHANGED <<activeRuns, cancelling, runner, loaded, failures, restarts, cancels,
                 modelSelector, returned>>
  /\ file' = saveSession(session')

\* A failure mode that would be 'fail' whatever the options say.
failureModeFail(def) == "fail"

\* const failureMode = run.workflowDef.options?.prFailureMode || 'warn'
failureMode(def) ==
  IF def.prFailureMode = "none" THEN "warn" ELSE def.prFailureMode

\* prManager.createPR rejected (lines 512-524).
PRFailed(r) ==
  /\ runs[r].pc = "pr"
  /\ failures < MaxFailures
  /\ failures' = failures + 1
  /\ Store(r, IF failureMode(RunDef(runs[r])) = "fail"
                THEN failWorkflow(Pair(r))
                ELSE completeWorkflow(
                       [Pair(r) EXCEPT !.session = addLog(@, "pr_failed")]))
  /\ UNCHANGED <<activeRuns, cancelling, runner, loaded, restarts, cancels,
                 modelSelector, returned>>
  /\ file' = saveSession(session')

\* cancelWorkflow lines 573-579.
cancelExecutions(executions) ==
  [k \in 1..Len(executions) |->
     IF executions[k].status \in {"running", "spawning"}
       THEN [executions[k] EXCEPT !.status = "failed", !.error = "cancelled"]
       ELSE executions[k]]

\* The executions cancelWorkflow marks: <<agent, index>>.
markedBy(R) ==
  UNION {{<<a, k>> : k \in {j \in 1..Len(R.agentExecutions[a]) :
                             R.agentExecutions[a][j].status
                               \in {"running", "spawning"}}} :
           a \in AgentType}

\* cancelWorkflow (lines 563-601) for a registered Run, up to its await of
\* the branch deletion, or to its return when there is nothing to delete.
CancelWorkflow(r, cleanup) ==
  /\ r \in activeRuns
  /\ cancels < MaxCancels
  /\ cancels' = cancels + 1
  /\ runs' = [runs EXCEPT
       ![r].status = "cancelled",
       ![r].agentExecutions =
          [a \in AgentType |-> cancelExecutions(runs[r].agentExecutions[a])]]
  /\ session' = markFailed(session)
  /\ LET awaits == cleanup /\ runs[r].gitBranch
     IN /\ cancelling' =
             Append(cancelling,
                    [run |-> r, marked |-> markedBy(runs[r]),
                     pc |-> IF awaits THEN "deleteBranch" ELSE "returned"])
        /\ activeRuns' = IF awaits THEN activeRuns ELSE activeRuns \ {r}
  /\ UNCHANGED <<runner, loaded, failures, restarts,
                 modelSelector, returned>>
  /\ file' = saveSession(session')

\* deleteBranch settled (lines 586-591, either way), then lines 595-600.
BranchDeleted(k, failed) ==
  /\ k \in 1..Len(cancelling)
  /\ cancelling[k].pc = "deleteBranch"
  /\ failed => failures < MaxFailures
  /\ failures' = IF failed THEN failures + 1 ELSE failures
  /\ cancelling' = [cancelling EXCEPT ![k].pc = "returned"]
  /\ activeRuns' = activeRuns \ {cancelling[k].run}
  /\ UNCHANGED <<runs, session, runner, loaded, restarts, cancels,
                 file, modelSelector, returned>>

\* cancelWorkflow for the id of a Run that is not in the registry (lines
\* 564-567): the Run was cancelled before, or belongs to an earlier process.
CancelUnknown(r) ==
  /\ r \notin activeRuns
  /\ cancels < MaxCancels
  /\ cancels' = cancels + 1
  /\ UNCHANGED <<runs, activeRuns, session, cancelling, runner, loaded,
                 failures, restarts,
                 file, modelSelector, returned>>

\* The Run object of resumeWorkflow (lines 622-637). session.context is the
\* caller's context of startWorkflow: it holds no agent output, no retry
\* counter and no gitBranch.
resumedRun(S, cp) ==
  [NewRun(S.workflowId, [createBranch |-> FALSE]) EXCEPT
     !.currentStageIndex = resumeStageIndex(cp, S),
     !.i = resumeStageIndex(cp, S),
     !.startIndex = resumeStageIndex(cp, S),
     !.inherited = S.agentExecutions,
     !.completedAgents = Members(S.completedAgents),
     !.complexity = S.complexity,
     !.resumed = TRUE]

\* No startWorkflow/resumeWorkflow call is pending and no agent of an
\* earlier Run is still in flight: the engine is resumed when it is idle.
EngineIdle ==
  \A r \in RunIds :
    /\ runs[r].pc \in {"returned", "raised", "gone"}
    /\ \A a \in AgentType :
         runs[r].proc[a].pc \notin {"spawning", "running", "commit"}

\* resumeWorkflow (lines 608-648) up to its first await.
ResumeWorkflow ==
  /\ session.status # "none"
  /\ EngineIdle
  /\ Len(runs) < MaxRuns
  /\ restoreOutcome(session) = "restored"
  /\ getWorkflow(session.workflowId) # Undefined
  /\ LET S == restore(session)
         P == afterExecuteWorkflow(executeWorkflow(
                [run |-> resumedRun(S, latestCheckpoint(S)), session |-> S]))
     IN /\ runs' = Append(runs, P.run)
        /\ session' = P.session
  /\ activeRuns' = activeRuns \cup {Len(runs) + 1}
  /\ UNCHANGED <<cancelling, runner, loaded, failures, restarts, cancels,
                 modelSelector, returned>>
  /\ file' = saveSession(session')

\* resumeWorkflow raising: restore threw (session-manager lines 283-291),
\* or the workflow id is not in the registry (lines 617-619), which is
\* found out after restore has set the Session running.
ResumeRejected ==
  /\ session.status # "none"
  /\ EngineIdle
  /\ \/ restoreOutcome(session) # "restored"
     \/ getWorkflow(session.workflowId) = Undefined
  /\ session' = restore(session)
  /\ UNCHANGED <<runs, activeRuns, cancelling, runner, loaded, failures,
                 restarts, cancels,
                 modelSelector, returned>>
  /\ file' = saveSession(session')

\* The process ends (it is killed, or the CLI command is over) and a new one
\* starts: the Run objects, the registry and every pending call are gone,
\* the Session is what its file holds. A Run of an earlier process is kept
\* in `runs` as a Run nothing refers to (pc "gone").
Restart ==
  /\ runs # <<>>
  /\ restarts < MaxRestarts
  /\ restarts' = restarts + 1
  /\ runs' = [r \in RunIds |-> Gone]
  /\ activeRuns' = {}
  /\ cancelling' = <<>>
  /\ loaded' = FALSE
  /\ session' = loadSession(file)
  /\ UNCHANGED <<runner, failures, cancels,
                 file, modelSelector, returned>>

Next ==
  \/ \E def \in Startable :
       \E complexity \in RunComplexity(def.id),
          options \in RunOptions(def.id), f \in Runners(def) :
         StartWorkflow(def, complexity, options, f)
  \/ \E r \in RunIds : BranchCreated(r)
  \/ \E r \in RunIds : BranchFailed(r)
  \/ \E r \in RunIds, a \in AgentType : AgentCreateTask(r, a)
  \/ \E r \in RunIds, a \in AgentType : StartTask(r, a)
  \/ \E r \in RunIds, a \in AgentType, artifacts \in BOOLEAN :
       RunnerResolved(r, a, artifacts)
  \/ \E r \in RunIds, a \in AgentType : RunnerRejected(r, a)
  \/ \E r \in RunIds, a \in AgentType : CommitResolved(r, a)
  \/ \E r \in RunIds, a \in AgentType : CommitRejected(r, a)
  \/ \E r \in RunIds : PRCreated(r)
  \/ \E r \in RunIds : PRFailed(r)
  \/ \E r \in RunIds, cleanup \in BOOLEAN : CancelWorkflow(r, cleanup)
  \/ \E k \in 1..MaxCancels, failed \in BOOLEAN : BranchDeleted(k, failed)
  \/ \E r \in RunIds : CancelUnknown(r)
  \/ ResumeWorkflow
  \/ ResumeRejected
  \/ Restart

Spec == Init /\ [][Next]_vars

\* What the engine awaits makes its first steps: the imports of a spawning
\* agent are done, the agent's process starts its task, a branch deletion
\* settles.
Begin ==
  \/ \E r \in RunIds, a \in AgentType :
       AgentCreateTask(r, a) \/ StartTask(r, a)
  \/ \E k \in 1..MaxCancels, failed \in BOOLEAN : BranchDeleted(k, failed)

\* An await of a startWorkflow/resumeWorkflow call is settled: the branch
\* creation, the Agent Runner, the commit or the pull request returns or
\* fails.
Answer ==
  \/ \E r \in RunIds : BranchCreated(r) \/ BranchFailed(r)
  \/ \E r \in RunIds, a \in AgentType :
       \/ \E artifacts \in BOOLEAN : RunnerResolved(r, a, artifacts)
       \/ RunnerRejected(r, a)
       \/ CommitResolved(r, a)
       \/ CommitRejected(r, a)
  \/ \E r \in RunIds : PRCreated(r) \/ PRFailed(r)

\* Answer is enabled: a branch or a pull request is awaited, or an agent
\* awaits its commit or its process, which has got as far as it gets.
Awaited ==
  \/ \E r \in RunIds : runs[r].pc \in {"branch", "pr"}
  \/ \E r \in RunIds, a \in AgentType :
       \/ runs[r].proc[a].pc = "commit"
       \/ runs[r].proc[a].pc = "running" /\ processDone(runs[r], a)

\* Every Agent Runner invocation and every collaborator call eventually
\* returns or fails: the event loop keeps delivering what is awaited. The
\* second condition is weak fairness of Answer, with its enabling condition
\* written out as Awaited.
FairSpec ==
  /\ Spec
  /\ WF_vars(Begin)
  /\ <>[]Awaited => []<><<Answer>>_vars

\* A hasActiveRun that would count only the Runs still running.
hasRunningRun(sessionId) ==
  \E r \in activeRuns :
    runs[r].sessionId = sessionId /\ runs[r].status = "running"

\* ------------------------------------------ the Session Store by itself
\* The SessionManager called directly, as its commands and any other
\* caller may: every status its updateStatus accepts, checkpoints and
\* execution records of any content. The engine variables stay as Init
\* leaves them.
SessionStatus == {"running", "paused", "completed", "failed"}

StoreAgents == {"PM", "ARCHITECT"}

Recorded(S) ==
  LET n(a) == S.agentExecutions[a].completed + S.agentExecutions[a].failed
  IN n("PM") + n("ARCHITECT")

EngineUnchanged ==
  UNCHANGED <<runs, activeRuns, cancelling, runner, loaded, failures,
              restarts, cancels, modelSelector, returned>>

\* What a call of a function of the library leaves alone.
LibraryUnchanged ==
  UNCHANGED <<runs, activeRuns, session, cancelling, runner, loaded, failures,
              restarts, cancels, file>>

CreateSession(workflowId) ==
  /\ session.status = "none"
  /\ session' = createSession(workflowId)
  /\ file' = saveSession(session')
  /\ EngineUnchanged

\* updateStatus, and markFailed, markCompleted, markPaused through it.
UpdateStatus(status) ==
  /\ session.status # "none"
  /\ session' = updateStatus(session, status)
  /\ file' = saveSession(session')
  /\ EngineUnchanged

Checkpoint(stageIndex, agents) ==
  /\ session.status # "none"
  /\ Len(session.checkpoints) < MaxCheckpoints
  /\ session' = checkpoint(session, [stageIndex |-> stageIndex,
                                     completedAgents |-> ArrayFrom(agents)])
  /\ file' = saveSession(session')
  /\ EngineUnchanged

RecordAgentExecution(agentType, status) ==
  /\ session.status # "none"
  /\ Recorded(session) < MaxRecords
  /\ session' = recordAgentExecution(session, agentType, status)
  /\ file' = saveSession(session')
  /\ EngineUnchanged

AddLog(type) ==
  /\ session.status # "none"
  /\ Len(session.logs) < MaxLogged
  /\ session' = addLog(session, type)
  /\ file' = saveSession(session')
  /\ EngineUnchanged

Restore ==
  /\ session.status # "none"
  /\ session' = restore(file)
  /\ file' = IF restoreOutcome(file) = "restored"
              THEN saveSession(session') ELSE file
  /\ EngineUnchanged

SessionNext ==
  \/ \E w \in Definitions : CreateSession(w.id)
  \/ \E status \in SessionStatus : UpdateStatus(status)
  \/ \E stageIndex \in 0..1, agents \in SUBSET StoreAgents :
       Checkpoint(stageIndex, agents)
  \/ \E a \in StoreAgents, status \in {"completed", "failed"} :
       RecordAgentExecution(a, status)
  \/ AddLog("agent_spawned")
  \/ Restore

SessionSpec == Init /\ [][SessionNext]_vars

\* hasActiveRun (lines 696-703).
hasActiveRun(sessionId) ==
  \E r \in activeRuns : runs[r].sessionId = sessionId

\* The zombie test of the cancel, list and status commands.
isZombie(S) == S.status = "running" /\ ~hasActiveRun(S.id)

\* ------------------------------------------------- a Session's long log
\* The time addLog stamps the next entry with: later than the entries the
\* log holds. An entry is here the time it was added at.
Now(S) == IF S.logs = <<>> THEN 1 ELSE S.logs[Len(S.logs)] + 1

AddLogEntry ==
  /\ session.status # "none"
  /\ Now(session) <= MaxLogClock
  /\ session' = addLog(session, Now(session))
  /\ file' = saveSession(session')
  /\ EngineUnchanged

LogNext ==
  \/ \E w \in Definitions : CreateSession(w.id)
  \/ AddLogEntry

LogSpec == Init /\ [][LogNext]_vars

\* ------------------------------------------------- the stored Sessions
\* A cleanup that would spare no status.
expiredWhateverStatus(S, cutoff) == S.updatedAt < cutoff

\* The condition of cleanup's loop; times are days.
expired(S, cutoff) == S.updatedAt < cutoff /\ S.status # "running"

\* cleanup(maxAgeDays) on the day `now` over the Session files `stored`
\* (id to Session): the files left and the count returned.
cleanup(stored, now, maxAgeDays) ==
  LET cutoff == now - maxAgeDays
      doomed == {id \in DOMAIN stored : expired(stored[id], cutoff)}
  IN [stored |-> [id \in DOMAIN stored \ doomed |-> stored[id]],
      deleted |-> Cardinality(doomed)]

\* The sessions directories a cleanup may find.
Directories ==
  UNION {[ids -> [status : SessionStatus, updatedAt : 0..MaxDay]] :
           ids \in SUBSET (1..MaxSessions)}

\* maxAgeDays: 30 is the default of a call without an argument.
MaxAgeDays == (0..MaxDay) \cup {30}

Cleanup(stored, maxAgeDays) ==
  /\ returned' = [op |-> "cleanup", stored |-> stored, now |-> MaxDay,
                  maxAgeDays |-> maxAgeDays,
                  result |-> cleanup(stored, MaxDay, maxAgeDays)]
  /\ UNCHANGED modelSelector
  /\ LibraryUnchanged

CleanupNext ==
  /\ returned = NoCall
  /\ \E stored \in Directories, maxAgeDays \in MaxAgeDays :
       Cleanup(stored, maxAgeDays)

CleanupSpec == Init /\ [][CleanupNext]_vars

\* ------------------------------------------- the Model Selector by itself
\* The override tables handed to configure: at most MaxOverrides agents have
\* an override.
OverrideTables ==
  {o \in [AgentType -> ModelTier \cup {"none"}] :
     Cardinality({a \in AgentType : o[a] # "none"}) <= MaxOverrides}

\* configure(options): the given keys replace the ones of this.options.
Configure(opts) ==
  /\ modelSelector' = [options |-> opts]
  /\ UNCHANGED returned
  /\ LibraryUnchanged

SelectModel(agentType, complexity) ==
  /\ returned' = [op |-> "selectModel", agentType |-> agentType,
                  complexity |-> complexity,
                  result |-> selectModel(modelSelector.options, agentType,
                                        complexity)]
  /\ UNCHANGED modelSelector
  /\ LibraryUnchanged

SelectorNext ==
  \/ \E maxTier \in ModelTier, optimizeCost \in BOOLEAN,
        overrides \in OverrideTables :
       Configure([maxTier |-> maxTier, overrides |-> overrides,
                  optimizeCost |-> optimizeCost])
  \/ \E a \in AgentType, complexity \in Complexity :
       SelectModel(a, complexity)

SelectorSpec == Init /\ [][SelectorNext]_vars

\* --------------------------------------- the agent registry's functions
\* getAgentDependencies(agentType) over the registry configs; a tag without
\* an entry has no dependencies.
getAgentDependencies(configs, agentType) ==
  IF agentType \in DOMAIN configs THEN configs[agentType].dependencies ELSE {}

\* Dependencies that would count whether or not they are requested.
dependenciesAnywhere(configs, agentTypes, type) ==
  getAgentDependencies(configs, type)

\* Dependencies among which an agent's own tag would not count.
dependenciesButSelf(configs, agentTypes, type) ==
  (getAgentDependencies(configs, type) \cap Range(agentTypes)) \ {type}

\* deps of topologicalSortAgents: the dependencies that are requested too.
dependenciesWithin(configs, agentTypes, type) ==
  getAgentDependencies(configs, type) \cap Range(agentTypes)

Filter(seq, keep) == SelectSeq(seq, LAMBDA x : x \in keep)

\* The while loop of topologicalSortAgents (Kahn's algorithm by levels).
RECURSIVE sortLevels(_, _, _, _)
sortLevels(adjacency, inDegree, remaining, levels) ==
  IF remaining = <<>> THEN [threw |-> "none", levels |-> levels]
  ELSE LET currentLevel ==
             Filter(remaining, {t \in Range(remaining) : inDegree[t] = 0})
       IN IF currentLevel = <<>>
            THEN [threw |-> "Circular dependency detected", levels |-> <<>>]
            ELSE sortLevels(
                   adjacency,
                   [t \in DOMAIN inDegree |->
                      inDegree[t] - Cardinality({c \in Range(currentLevel) :
                                                   t \in adjacency[c]})],
                   Filter(remaining,
                          Range(remaining) \ Range(currentLevel)),
                   Append(levels, currentLevel))

topologicalSortAgents(configs, agentTypes) ==
  LET tags == Range(agentTypes)
      deps == [t \in tags |-> dependenciesWithin(configs, agentTypes, t)]
  IN sortLevels([t \in tags |-> {u \in tags : t \in deps[u]}],
                [t \in tags |-> Cardinality(deps[t])],
                agentTypes, <<>>)

\* An unmet-requirement test that would not look at the requested tags.
unmetWhenNotCompleted(agentTypes, completedAgents, dep) ==
  dep \notin completedAgents

unmet(agentTypes, completedAgents, dep) ==
  dep \notin completedAgents /\ dep \notin Range(agentTypes)

\* validateDependencies: `missing` holds one text "type requires dep" for
\* each position of agentTypes and each unmet dependency of its tag, here
\* the bag of the pairs <<type, dep>>.
validateDependencies(configs, agentTypes, completedAgents) ==
  LET pairs == {<<k, dep>> \in (1..Len(agentTypes)) \X DOMAIN configs :
                  /\ dep \in getAgentDependencies(configs, agentTypes[k])
                  /\ unmet(agentTypes, completedAgents, dep)}
      texts == {<<agentTypes[p[1]], p[2]>> : p \in pairs}
      missing == [m \in texts |->
                    Cardinality({p \in pairs :
                                   <<agentTypes[p[1]], p[2]>> = m})]
  IN [threw |-> "none", valid |-> (pairs = {}), missing |-> missing]

\* Arrays of at most n of the tags, and the duplicate-free ones.
Lists(tags, n) == UNION {[1..k -> tags] : k \in 0..n}

Arrays(tags, n) ==
  {a \in Lists(tags, n) : \A i, j \in 1..Len(a) : a[i] = a[j] => i = j}

SmallTags == {"PM", "ARCHITECT", "UIUX"}

\* The registries the functions are applied to: the one of the program and
\* every dependency relation over three of its tags, cyclic ones included.
Registries ==
  {AGENT_CONFIGS} \cup
  [SmallTags -> [dependencies : SUBSET SmallTags]]

RegistryTags(configs) ==
  IF configs = AGENT_CONFIGS THEN AgentType ELSE SmallTags

TopologicalSortAgents(configs, agentTypes) ==
  /\ returned' = [op |-> "topologicalSortAgents", configs |-> configs,
                  agentTypes |-> agentTypes,
                  result |-> topologicalSortAgents(configs, agentTypes)]
  /\ UNCHANGED modelSelector
  /\ LibraryUnchanged

ValidateDependencies(configs, agentTypes, completedAgents) ==
  /\ returned' = [op |-> "validateDependencies", configs |-> configs,
                  agentTypes |-> agentTypes,
                  completedAgents |-> completedAgents,
                  result |-> validateDependencies(configs, agentTypes,
                                                  completedAgents)]
  /\ UNCHANGED modelSelector
  /\ LibraryUnchanged

\* The functions are pure: one call in a behaviour shows all a call does.
RegistryNext ==
  \/ /\ returned = NoCall
     /\ \E configs \in Registries :
          \E agentTypes \in Arrays(RegistryTags(configs), MaxTags) :
            TopologicalSortAgents(configs, agentTypes)
  \/ /\ returned = NoCall
     /\ \E configs \in Registries :
          \E agentTypes \in Lists(RegistryTags(configs), MaxTags),
             completedAgents \in SUBSET {"PM", "ARCHITECT"} :
            ValidateDependencies(configs, agentTypes, completedAgents)

RegistrySpec == Init /\ [][RegistryNext]_vars

\* ---------------------------------------------------------- properties
\* The Runs of the running process.
Live == {r \in RunIds : runs[r].pc # "gone"}

\* The executions Run r had of agent a before the step (none for a Run the
\* step creates).
Before(r, a) == IF r \in RunIds THEN Len(runs[r].agentExecutions[a]) ELSE 0

\* The agents Run r spawns in the step: a new execution record is pushed.
SpawnedIn(r) ==
  {a \in AgentType : Len(runs'[r].agentExecutions[a]) > Before(r, a)}

StageAgents(R, i) == Range(StageAt(RunDef(R), i).agents)

HasCheckpoint(S, i) ==
  \E k \in 1..Len(S.checkpoints) : S.checkpoints[k].stageIndex = i

\* C1: stages execute strictly in definition order. Whenever a Run spawns
\* an agent, the agent belongs to the Run's current stage j, and every stage
\* i < j from the Run's starting stage index on has finished (all its agents
\* are completed) and has its checkpoint in the Session.
C1_StagesInOrder ==
  [][\A r \in 1..Len(runs') : \A a \in SpawnedIn(r) :
       LET R == runs'[r]
           j == R.currentStageIndex
       IN /\ a \in StageAgents(R, j)
          /\ \A i \in R.startIndex..(j - 1) :
               /\ StageAgents(R, i) \subseteq R.completedAgents
               /\ HasCheckpoint(session', i)]_vars

\* An agent of the third stage of a Run is running.
C1_Witness ==
  \E r \in Live : \E a \in AgentType :
    /\ runs[r].currentStageIndex >= runs[r].startIndex + 2
    /\ a \in StageAgents(runs[r], runs[r].currentStageIndex)
    /\ runs[r].proc[a].pc = "running"

\* C2: in a fresh Run of a predefined workflow, every declared dependency
\* of an agent is in run.completedAgents and has its output in run.context
\* at the moment the agent is spawned.
C2_DependenciesCompleted ==
  [][\A r \in 1..Len(runs') : \A a \in SpawnedIn(r) :
       LET R == runs'[r]
       IN ~R.resumed /\ RunDef(R) \in PREDEFINED_WORKFLOWS =>
            /\ getAgentConfig(a).dependencies \subseteq R.completedAgents
            /\ getAgentConfig(a).dependencies \subseteq R.outputs]_vars

\* The runner of agent a rejects every attempt.
AlwaysFails(a) == runner[a] \in {"faulty", "dead"}

\* C3: an agent with maxRetries = n whose every attempt fails is attempted
\* exactly n + 1 times within one Run before the failure propagates: never
\* more than n + 1 attempts, and n + 1 of them once it has propagated.
C3_RetryBound ==
  \A r \in Live : \A a \in AgentType :
    AlwaysFails(a) =>
      /\ Len(runs[r].agentExecutions[a]) <= getAgentConfig(a).maxRetries + 1
      /\ runs[r].proc[a].pc = "threw" =>
           Len(runs[r].agentExecutions[a]) = getAgentConfig(a).maxRetries + 1

\* Agent a of Run R has propagated its failure with its retries used up.
Exhausted(R, a) ==
  /\ R.proc[a].pc = "threw"
  /\ R.retries[a] = getAgentConfig(a).maxRetries
  /\ R.agentExecutions[a][R.proc[a].exec].task = "failed"

\* C4: when startWorkflow raises because an agent of stage k exhausted its
\* retries, the Session is failed, the Run is failed, the Session holds a
\* checkpoint for each stage 0..k-1, and for k >= 1 isResumable is true.
C4_FailedRunIsResumable ==
  [][\A r \in RunIds :
       /\ r \in Live /\ ~runs[r].resumed
       /\ runs[r].pc = "stage" /\ runs'[r].pc = "raised"
       /\ \E a \in AgentType : Exhausted(runs'[r], a) /\ ~Exhausted(runs[r], a)
       => LET k == runs'[r].currentStageIndex
          IN /\ session'.status = "failed"
             /\ runs'[r].status = "failed"
             /\ \A i \in 0..(k - 1) : HasCheckpoint(session', i)
             /\ Len(session'.checkpoints) = k
             /\ k >= 1 => isResumable(session')]_vars

\* startWorkflow has raised in the third stage for an exhausted agent.
C4_Witness ==
  \E r \in Live : \E a \in AgentType :
    /\ ~runs[r].resumed /\ runs[r].pc = "raised"
    /\ runs[r].status = "failed" /\ session.status = "failed"
    /\ runs[r].currentStageIndex = 2
    /\ a \in StageAgents(runs[r], 2)
    /\ Exhausted(runs[r], a)
    /\ isResumable(session)

\* Run r begins a stage in the step: its call awaits agents of a stage it
\* did not await before.
StageBegins(r) ==
  /\ runs'[r].pc = "stage"
  /\ \/ r \notin RunIds
     \/ runs[r].pc # "stage"
     \/ runs[r].currentStageIndex # runs'[r].currentStageIndex

\* C5: executeStage spawns exactly the agents of stage.agents that are not
\* in run.completedAgents when the stage begins (all of them at once in a
\* parallel stage, the first of them in a sequential one); an agent in the
\* completed set is never spawned.
C5_SpawnsUncompletedOnly ==
  [][\A r \in 1..Len(runs') :
       LET R == runs'[r]
           stage == StageAt(RunDef(R), R.currentStageIndex)
           todo == SelectSeq(stage.agents,
                             LAMBDA a : a \notin R.completedAgents)
       IN /\ \A a \in SpawnedIn(r) :
               a \in Range(R.agentsToRun) /\ a \notin R.completedAgents
          /\ StageBegins(r) =>
               /\ R.agentsToRun = todo
               /\ SpawnedIn(r) = IF stage.executionMode = "parallel"
                                   THEN Range(todo) ELSE {todo[1]}]_vars

\* A resumed Run is in a stage of which it runs only a part, the other
\* agents being completed already.
C5_Witness ==
  \E r \in Live :
    /\ runs[r].resumed /\ runs[r].pc = "stage"
    /\ Len(runs[r].agentsToRun) < Len(StageOf(runs[r]).agents)
    /\ \E a \in Range(runs[r].agentsToRun) : runs[r].proc[a].pc = "running"

\* C6: after resumeWorkflow the new Run's context holds the output of
\* every agent in its completedAgents set, and the dependency bundle of an
\* agent executed after the resume holds the output of each declared
\* dependency that completed before the resume.
C6_ResumedContextHasOutputs ==
  \A r \in Live :
    runs[r].resumed =>
      /\ runs[r].completedAgents \subseteq runs[r].outputs
      /\ \A a \in AgentType :
           runs[r].proc[a].pc \in {"running", "commit", "done"} =>
             \A d \in getAgentConfig(a).dependencies :
               runs[r].inherited[d].completed > 0 =>
                 d \in runs[r].proc[a].dependencyOutputs

LastCheckpoint(S) == S.checkpoints[Len(S.checkpoints)]

\* C7: checkpoint-then-restore round trip. After checkpoint(k) the
\* Session's current stage is k + 1 and its completed-agent list is the
\* checkpoint's snapshot; a following restore returns that checkpoint as
\* the latest one and the Run resumeWorkflow builds from it starts at
\* k + 1. Every Run resumeWorkflow creates starts at the stage after the
\* Session's latest checkpoint, or at the Session's current stage when the
\* Session has no checkpoint.
C7_CheckpointRestoreRoundTrip ==
  [][/\ Len(session'.checkpoints) > Len(session.checkpoints) =>
          LET cp == LastCheckpoint(session')
              S == restore(session')
          IN /\ session'.currentStage = cp.stageIndex + 1
             /\ session'.completedAgents = cp.completedAgents
             /\ restoreOutcome(session') = "restored" =>
                  /\ ~latestCheckpoint(S).null
                  /\ latestCheckpoint(S).stageIndex = cp.stageIndex
                  /\ latestCheckpoint(S).completedAgents = cp.completedAgents
                  /\ resumedRun(S, latestCheckpoint(S)).currentStageIndex =
                       cp.stageIndex + 1
     /\ Len(runs') > Len(runs) /\ runs'[Len(runs')].resumed =>
          runs'[Len(runs')].startIndex =
            IF Len(session.checkpoints) > 0
              THEN LastCheckpoint(session).stageIndex + 1
              ELSE session.currentStage]_vars

\* A Run resumed from a checkpoint is executing the stage after it.
C7_Witness ==
  \E r \in Live :
    /\ runs[r].resumed /\ runs[r].pc = "stage"
    /\ Len(session.checkpoints) > 0
    /\ runs[r].startIndex = LastCheckpoint(session).stageIndex + 1
    /\ runs[r].currentStageIndex = runs[r].startIndex

\* C8: when the workflow is marked failed and the error re-raised, every
\* agent of the Run has settled: none is still spawning, running or
\* committing.
C8_AllSettledWhenFailed ==
  \A r \in Live :
    runs[r].pc = "raised" =>
      \A a \in AgentType :
        runs[r].proc[a].pc \notin {"spawning", "running", "commit"}

\* C9: a Run's status changes only from running (to completed, failed or
\* cancelled); in particular a cancelled Run stays cancelled.
C9_StatusOnlyLeavesRunning ==
  [][\A r \in RunIds :
       runs'[r].pc # "gone" /\ runs'[r].status # runs[r].status =>
         /\ runs[r].status = "running"
         /\ runs'[r].status \in {"completed", "failed", "cancelled"}]_vars

\* The cancelWorkflow call k returns in the step.
CancelReturns(k) ==
  /\ cancelling'[k].pc = "returned"
  /\ k <= Len(cancelling) => cancelling[k].pc # "returned"

\* C10: when cancelWorkflow returns for a registered Run, the Run is
\* cancelled, every execution that was spawning or running is failed with
\* the cancellation error, the Session is failed and the Run is out of the
\* registry, whatever the branch deletion did; for an id that is not in
\* the registry the call changes no Run and no Session.
C10_CancelPostconditions ==
  [][/\ \A k \in 1..Len(cancelling') :
          CancelReturns(k) =>
            LET c == cancelling'[k]
                R == runs'[c.run]
            IN /\ R.status = "cancelled"
               /\ \A x \in c.marked :
                    /\ R.agentExecutions[x[1]][x[2]].status = "failed"
                    /\ R.agentExecutions[x[1]][x[2]].error = "cancelled"
               /\ session'.status = "failed"
               /\ c.run \notin activeRuns'
     /\ cancels' # cancels /\ cancelling' = cancelling =>
          UNCHANGED <<runs, session>>]_vars

\* Run r's call leaves the stage it awaits in the step.
StageLeft(r) == runs[r].pc = "stage" /\ runs'[r].pc # "stage"

\* C11: cancellation is observed at stage boundaries only. Once a Run is
\* cancelled, the agents it still spawns belong to the stage in flight at
\* the request, and when that stage is over the Run's call aborts: it
\* raises, it neither goes on to the pull request nor returns normally.
C11_CancelAbortsAtBoundary ==
  [][\A r \in RunIds :
       runs[r].status = "cancelled" /\ runs'[r].pc # "gone" =>
         /\ SpawnedIn(r) \subseteq StageAgents(runs[r], runs[r].currentStageIndex)
         /\ StageLeft(r) => runs'[r].pc = "raised"]_vars

\* The part of C11 that the engine keeps: a cancelled Run spawns no agent
\* of a later stage, and a stage that is not the last one is followed by
\* the cancellation error.
C11_NoLaterStageSpawned ==
  [][\A r \in RunIds :
       runs[r].status = "cancelled" /\ runs'[r].pc # "gone" =>
         /\ SpawnedIn(r) \subseteq StageAgents(runs[r], runs[r].currentStageIndex)
         /\ runs'[r].currentStageIndex = runs[r].currentStageIndex
         /\ StageLeft(r)
              /\ runs[r].currentStageIndex + 1 < Len(RunDef(runs[r]).stages)
              => runs'[r].pc = "raised"]_vars

\* The call of Run r (startWorkflow or resumeWorkflow) reaches pc in the step.
CallReaches(r, pc) ==
  runs'[r].pc = pc /\ (r \in RunIds => runs[r].pc # pc)

\* A call that has a Run returns with Run and Session completed and raises
\* with Run and Session failed.
CallOutcomes ==
  \A r \in 1..Len(runs') :
    /\ CallReaches(r, "returned") =>
         runs'[r].status = "completed" /\ session'.status = "completed"
    /\ CallReaches(r, "raised") =>
         runs'[r].status = "failed" /\ session'.status = "failed"

\* C12: no finished engine call leaves the Session running. A call that
\* returns leaves it completed; a call that raises after the Session was
\* created, or after restore set it running again (the unknown workflow
\* id of resumeWorkflow included), leaves it failed, and the Run failed.
C12_NoSessionLeftRunning ==
  [][/\ CallOutcomes
     /\ ResumeRejected /\ restoreOutcome(session) = "restored" =>
          session'.status = "failed"]_vars

\* The calls that have a Run keep C12.
C12_CallsWithRun == [][CallOutcomes]_vars

\* C13: no failure is dropped silently. In the step in which startWorkflow
\* or resumeWorkflow raises, the Session becomes failed and an entry is
\* appended to the Session's log.
C13_FailureLogged ==
  [][\A r \in 1..Len(runs') :
       CallReaches(r, "raised") =>
         /\ session'.status = "failed"
         /\ session'.logs # session.logs]_vars

\* C14: completed is a terminal Session status. Once the Session is
\* completed no step changes its status, and restore on it fails with the
\* already-completed error and leaves it completed.
C14_CompletedIsTerminal ==
  [][session.status = "completed" =>
       /\ session'.status = "completed"
       /\ restoreOutcome(session) = "completed"
       /\ restore(session).status = "completed"]_vars

\* The part of C14 that holds: restore and resumeWorkflow reject a
\* completed Session and leave it completed.
C14_CompletedNotResumed ==
  [][session.status = "completed" =>
       /\ restoreOutcome(session) = "completed"
       /\ restore(session).status = "completed"
       /\ Len(runs') = Len(runs)
       /\ ResumeRejected => session'.status = "completed"]_vars

\* C15: the live registry never holds two Runs that reference the same
\* Session.
C15_OneLiveRunPerSession ==
  \A r1, r2 \in activeRuns :
    runs[r1].sessionId = runs[r2].sessionId => r1 = r2

\* The session ids of the registry's Runs.
RegisteredSessions == {runs[r].sessionId : r \in activeRuns}

\* C16: hasActiveRun(id) is true exactly when a Run of the live registry
\* has that session id, whatever the Run's status; a Session that is
\* running with no Run in the registry yields false; and the Sessions the
\* commands classify as zombies are exactly the running ones for which
\* hasActiveRun is false.
C16_ZombieDetection ==
  /\ \A id \in {SessionId, "session-0", "none"} :
       hasActiveRun(id) <=> id \in RegisteredSessions
  /\ session.status = "running" /\ RegisteredSessions = {} =>
       ~hasActiveRun(session.id)
  /\ isZombie(session) <=>
       session.status = "running" /\ session.id \notin RegisteredSessions

\* The process that ran the workflow has exited with the Session running:
\* the new process finds a zombie.
C16_Witness ==
  /\ restarts > 0
  /\ session.status = "running"
  /\ activeRuns = {}
  /\ ~hasActiveRun(session.id)
  /\ isZombie(session)

\* The startWorkflow/resumeWorkflow call of Run r is pending.
Pending(r) == r \in RunIds /\ runs[r].pc \in {"branch", "stage", "pr"}

\* The call of Run r is over: it returned with the Run completed, it raised
\* with the Run failed, or its process has ended.
Terminated(r) ==
  /\ r \in RunIds
  /\ \/ runs[r].pc = "returned" /\ runs[r].status = "completed"
     \/ runs[r].pc = "raised" /\ runs[r].status = "failed"
     \/ runs[r].pc = "gone"

\* No Run retries an agent more than maxRetries times.
RetriesBounded ==
  \A r \in RunIds : \A a \in AgentType :
    /\ runs[r].retries[a] <= getAgentConfig(a).maxRetries
    /\ Len(runs[r].agentExecutions[a]) <= getAgentConfig(a).maxRetries + 1

\* C17: when every Agent Runner invocation and every collaborator call
\* eventually returns or fails, every pending startWorkflow and
\* resumeWorkflow call eventually terminates, the Run completed or failed;
\* an agent is retried at most maxRetries times.
C17_CallsTerminate ==
  /\ \A r \in 1..MaxRuns : Pending(r) ~> Terminated(r)
  /\ []RetriesBounded

\* An agent was retried maxRetries times, failed again, and the call has
\* raised with the Run failed.
C17_Witness ==
  \E r \in Live : \E a \in AgentType :
    /\ Len(runs[r].agentExecutions[a]) = getAgentConfig(a).maxRetries + 1
    /\ runs[r].retries[a] = getAgentConfig(a).maxRetries
    /\ runs[r].proc[a].pc = "threw"
    /\ Terminated(r) /\ runs[r].status = "failed"

\* C18: checkpoints are append-only and immutable. No step removes or
\* reorders a checkpoint of the Session, and no step changes the stage
\* index or the completed-agent snapshot of a checkpoint it already holds.
C18_CheckpointsImmutable ==
  [][/\ Len(session'.checkpoints) >= Len(session.checkpoints)
     /\ \A k \in 1..Len(session.checkpoints) :
          session'.checkpoints[k] = session.checkpoints[k]]_vars

\* The part of C18 that holds: checkpoints are never removed or reordered,
\* their stage index never changes, and only the newest checkpoint's
\* snapshot changes, by growing.
C18_CheckpointsAppendOnly ==
  [][/\ Len(session'.checkpoints) >= Len(session.checkpoints)
     /\ \A k \in 1..Len(session.checkpoints) :
          /\ session'.checkpoints[k].stageIndex =
               session.checkpoints[k].stageIndex
          /\ k < Len(session.checkpoints) =>
               session'.checkpoints[k] = session.checkpoints[k]
          /\ \A a \in AgentType :
               session'.checkpoints[k].completedAgents[a] >=
                 session.checkpoints[k].completedAgents[a]]_vars

\* C19: restore on a completed Session raises the already-completed
\* error, on a failed Session with no checkpoint the no-checkpoints error,
\* and the persisted Session is unchanged in both cases; on any other
\* existing Session it sets the status to running, changes nothing else,
\* and returns the last checkpoint of the list, or none for an empty list.
C19_RestoreOutcomes ==
  LET S == session
      n == Len(S.checkpoints)
      after == restore(S)
      cp == latestCheckpoint(after)
  IN S.status # "none" =>
       IF S.status = "completed"
         THEN restoreOutcome(S) = "completed" /\ after = loadSession(S)
       ELSE IF S.status = "failed" /\ n = 0
         THEN restoreOutcome(S) = "no_checkpoints" /\ after = loadSession(S)
       ELSE /\ restoreOutcome(S) = "restored"
            /\ after = [loadSession(S) EXCEPT !.status = "running"]
            /\ cp.null <=> n = 0
            /\ n > 0 =>
                 /\ cp.stageIndex = S.checkpoints[n].stageIndex
                 /\ cp.completedAgents = S.checkpoints[n].completedAgents

\* restore has loaded a Session that holds checkpoints and set it running
\* (its lists are no longer the arrays checkpoint() shared).
C19_Witness ==
  /\ session.status = "running"
  /\ Len(session.checkpoints) > 0
  /\ ~session.aliased
  /\ latestCheckpoint(session).stageIndex = 1

\* C20: isResumable is true exactly when the Session exists, its status
\* is failed or paused, and it has at least one checkpoint or at least one
\* completed agent; so it is false for a completed Session with
\* checkpoints, for a running Session, and for a failed Session with no
\* checkpoint and no completed agent.
C20_IsResumable ==
  LET S == session
      exists == S.status # "none"
      completed == \E a \in AgentType : S.completedAgents[a] >= 1
  IN /\ isResumable(S) <=>
          /\ exists
          /\ S.status = "failed" \/ S.status = "paused"
          /\ Len(S.checkpoints) >= 1 \/ completed
     /\ S.status = "completed" /\ Len(S.checkpoints) >= 1 => ~isResumable(S)
     /\ S.status = "running" => ~isResumable(S)
     /\ S.status = "failed" /\ Len(S.checkpoints) = 0 /\ ~completed =>
          ~isResumable(S)

\* A paused Session without a checkpoint and with a completed agent is
\* resumable.
C20_Witness ==
  /\ session.status = "paused"
  /\ Len(session.checkpoints) = 0
  /\ session.completedAgents["PM"] = 1
  /\ isResumable(session)

\* A step that is a selectModel call under the options in force.
SelectModelCalled ==
  /\ returned' # returned
  /\ returned'.op = "selectModel"
  /\ UNCHANGED modelSelector

\* C21: whatever the agent tag, the context, the override table, the
\* cost-optimization setting and the maximum tier, the tier selectModel
\* returns has a rank that is not above the rank of the maximum tier.
C21_NeverAboveMaxTier ==
  [][SelectModelCalled =>
       MODEL_HIERARCHY[returned'.result] <=
         MODEL_HIERARCHY[modelSelector.options.maxTier]]_vars

\* The security reviewer, an opus agent, is given sonnet under a sonnet
\* maximum with no override.
C21_Witness ==
  /\ returned.op = "selectModel"
  /\ returned.agentType = "SR" /\ returned.complexity = "high"
  /\ returned.result = "sonnet"
  /\ modelSelector.options.maxTier = "sonnet"
  /\ modelSelector.options.overrides["SR"] = "none"

TierOfRank(n) == CHOOSE t \in ModelTier : MODEL_HIERARCHY[t] = n

Min(x, y) == IF x <= y THEN x ELSE y

Max(x, y) == IF x >= y THEN x ELSE y

\* The tier asked for before the maximum applies: the override if there is
\* one, else the default moved by the context, saturating at both ends.
RequestedRank(opts, agentType, complexity) ==
  IF opts.overrides[agentType] # "none"
    THEN MODEL_HIERARCHY[opts.overrides[agentType]]
    ELSE LET d == MODEL_HIERARCHY[AGENT_CONFIGS[agentType].defaultModel]
             move == IF complexity = "low" /\ opts.optimizeCost THEN -1
                     ELSE IF complexity = "high" THEN 1 ELSE 0
         IN Max(0, Min(2, d + move))

\* C22: selectModel(tag, context) is min(maxTier, t), t being the override of
\* the tag if there is one, and else the default tier one down for a low
\* complexity under cost optimization, one up for a high complexity, and
\* unchanged otherwise, saturating at haiku and opus; it is a valid tier.
C22_SelectModelValue ==
  [][SelectModelCalled =>
       /\ returned'.result \in ModelTier
       /\ returned'.result =
            TierOfRank(Min(MODEL_HIERARCHY[modelSelector.options.maxTier],
                           RequestedRank(modelSelector.options,
                                         returned'.agentType,
                                         returned'.complexity)))]_vars

\* A high complexity moves the sonnet default of the tester up to opus while
\* cost optimization is on, and no override or maximum stands in the way.
C22_Witness ==
  /\ returned.op = "selectModel"
  /\ returned.agentType = "TEST" /\ returned.complexity = "high"
  /\ returned.result = "opus"
  /\ modelSelector.options.optimizeCost
  /\ modelSelector.options.overrides["TEST"] = "none"

\* The dependencies of tag that are requested too, read from the registry.
RequestedDeps(configs, agentTypes, tag) ==
  IF tag \in DOMAIN configs
    THEN {d \in configs[tag].dependencies : \E k \in 1..Len(agentTypes) :
                                              agentTypes[k] = d}
    ELSE {}

\* A cycle among the requested tags: some requested tags each depend on
\* one of them.
Cyclic(configs, agentTypes) ==
  \E S \in SUBSET Range(agentTypes) :
    /\ S # {}
    /\ \A t \in S : RequestedDeps(configs, agentTypes, t) \cap S # {}

\* The level a tag is in, 0 if it is in none.
LevelsOf(levels, tag) ==
  {l \in 1..Len(levels) : \E k \in 1..Len(levels[l]) : levels[l][k] = tag}

Sorted == returned.op = "topologicalSortAgents"

\* C23: for duplicate-free requested tags over an acyclic dependency
\* relation topologicalSortAgents returns levels in which every requested
\* tag is in exactly one level, at one position, no other tag is in a level,
\* and every requested dependency of a tag is in a strictly earlier level;
\* dependencies that are not requested do not count.
C23_LevelsPartitionInOrder ==
  Sorted /\ ~Cyclic(returned.configs, returned.agentTypes) =>
    LET levels == returned.result.levels
        tags == Range(returned.agentTypes)
    IN /\ returned.result.threw = "none"
       /\ \A l \in 1..Len(levels) :
            /\ Range(levels[l]) \subseteq tags
            /\ \A i, j \in 1..Len(levels[l]) :
                 levels[l][i] = levels[l][j] => i = j
       /\ \A t \in tags : Cardinality(LevelsOf(levels, t)) = 1
       /\ \A t \in tags :
            \A d \in RequestedDeps(returned.configs, returned.agentTypes, t) :
              \A lt \in LevelsOf(levels, t), ld \in LevelsOf(levels, d) :
                ld < lt

\* Three levels over the program's registry, the dependency of ARCHITECT on
\* PM being outside the request.
C23_Witness ==
  /\ Sorted
  /\ returned.configs = AGENT_CONFIGS
  /\ returned.agentTypes = <<"DEV_BACKEND", "TL_BACKEND", "ARCHITECT">>
  /\ returned.result.levels =
       << <<"ARCHITECT">>, <<"TL_BACKEND">>, <<"DEV_BACKEND">> >>

\* C24: topologicalSortAgents raises the circular-dependency error when the
\* dependency relation among the requested tags has a cycle, and only then.
C24_CircularDependencyError ==
  Sorted =>
    /\ returned.result.threw \in {"none", "Circular dependency detected"}
    /\ returned.result.threw = "Circular dependency detected" <=>
         Cyclic(returned.configs, returned.agentTypes)

\* PM and ARCHITECT depend on each other; UIUX, which could be sorted, is
\* requested too.
C24_Witness ==
  /\ Sorted
  /\ returned.configs # AGENT_CONFIGS
  /\ returned.configs["PM"].dependencies = {"ARCHITECT"}
  /\ returned.configs["ARCHITECT"].dependencies = {"PM"}
  /\ returned.configs["UIUX"].dependencies = {}
  /\ returned.agentTypes = <<"PM", "ARCHITECT", "UIUX">>
  /\ returned.result.threw = "Circular dependency detected"

Validated == returned.op = "validateDependencies"

\* The pairs of a requested tag and a declared dependency of it that is
\* neither completed nor requested.
UnmetPairs ==
  {p \in Range(returned.agentTypes) \X DOMAIN returned.configs :
     /\ p[2] \in returned.configs[p[1]].dependencies
     /\ p[2] \notin returned.completedAgents
     /\ \A k \in 1..Len(returned.agentTypes) : returned.agentTypes[k] # p[2]}

Positions(tag) ==
  {k \in 1..Len(returned.agentTypes) : returned.agentTypes[k] = tag}

\* C30 as stated: validateDependencies does not raise, reports exactly one
\* unmet requirement for each pair of a requested tag and a declared
\* dependency of it that is neither completed nor requested, and nothing
\* else, and valid is true exactly when nothing is reported.
C30_OneRequirementPerPair ==
  Validated =>
    /\ returned.result.threw = "none"
    /\ DOMAIN returned.result.missing = UnmetPairs
    /\ \A p \in UnmetPairs : returned.result.missing[p] = 1
    /\ returned.result.valid <=> (DOMAIN returned.result.missing = {})

\* C30, amended: the unmet requirement of a pair is reported once for each
\* position the tag has in the request, so exactly once when the requested
\* tags are duplicate-free.
C30_OneRequirementPerPosition ==
  Validated =>
    /\ returned.result.threw = "none"
    /\ DOMAIN returned.result.missing = UnmetPairs
    /\ \A p \in UnmetPairs :
         returned.result.missing[p] = Cardinality(Positions(p[1]))
    /\ returned.result.valid <=> (DOMAIN returned.result.missing = {})

\* TL_BACKEND is requested with DEV_BACKEND and ARCHITECT is completed:
\* the one thing missing is the PM that ARCHITECT, requested too, requires.
C30_Witness ==
  /\ Validated
  /\ returned.configs = AGENT_CONFIGS
  /\ returned.agentTypes = <<"ARCHITECT", "TL_BACKEND", "DEV_BACKEND">>
  /\ returned.completedAgents = {"ARCHITECT"}
  /\ ~returned.result.valid
  /\ DOMAIN returned.result.missing = {<<"ARCHITECT", "PM">>}
  /\ returned.result.missing[<<"ARCHITECT", "PM">>] = 1

\* The stages of definition w that hold tag.
StagesWith(w, tag) ==
  {i \in 1..Len(w.stages) : tag \in Range(w.stages[i].agents)}

\* No agent tag of definition w is in a stage that is earlier than, or the
\* same as, a stage that holds one of its declared dependencies.
StagesFollowDependencies(w) ==
  \A a \in AgentType : \A d \in getAgentConfig(a).dependencies :
    \A i \in StagesWith(w, a), j \in StagesWith(w, d) : j < i

\* C25: in each of the seven predefined workflow definitions, here the one
\* the Session executes, no agent tag is in a stage that is earlier than, or
\* the same as, a stage that holds one of its declared dependencies.
C25_StagesFollowDependencies ==
  \A w \in PREDEFINED_WORKFLOWS :
    session.workflowId = w.id => StagesFollowDependencies(w)

\* The pull request of Run r fails in the step: its call was awaiting the
\* pull request and one more collaborator failure is counted.
PRFails(r) ==
  /\ r \in RunIds /\ runs[r].pc = "pr"
  /\ runs'[r].pc # "pr"
  /\ failures' = failures + 1

\* C26: when the pull request fails after all stages succeeded, under the
\* failure mode 'fail' the error propagates and Session and Run end failed;
\* under 'warn', which is also the mode when none is configured, a pr_failed
\* entry is appended to the log and Session and Run end completed.
C26_PRFailureModes ==
  [][\A r \in RunIds : PRFails(r) =>
       LET mode == RunDef(runs[r]).prFailureMode
       IN /\ mode = "fail" =>
               /\ runs'[r].pc = "raised"
               /\ runs'[r].status = "failed" /\ session'.status = "failed"
          /\ mode \in {"warn", "none"} =>
               /\ runs'[r].pc = "returned"
               /\ runs'[r].status = "completed"
               /\ session'.status = "completed"
               /\ session'.logs = Append(session.logs, "pr_failed")]_vars

\* The Run of a definition without a failure mode has returned completed and
\* pr_failed is the last entry of the Session's log.
C26_Witness ==
  \E r \in RunIds :
    /\ runs[r].workflowId = "CUSTOM_SEQUENTIAL"
    /\ runs[r].pc = "returned" /\ runs[r].status = "completed"
    /\ session.status = "completed"
    /\ session.logs # <<>>
    /\ session.logs[Len(session.logs)] = "pr_failed"

LogAdded ==
  /\ session.status # "none"
  /\ session'.logs # session.logs

\* C28: a Session's log never holds more than 1000 entries; an addLog that
\* would exceed the cap drops the oldest entries and keeps the newest 1000
\* in their order.
C28_LogCap ==
  [][LogAdded =>
       LET all == Append(session.logs, Now(session))
           kept == session'.logs
       IN /\ Len(kept) <= MaxLogs
          /\ Len(kept) = IF Len(all) <= MaxLogs THEN Len(all) ELSE MaxLogs
          /\ \A i \in 1..Len(kept) :
               kept[i] = all[Len(all) - Len(kept) + i]]_vars

\* The log is full after 1002 entries: the first two are gone.
C28_Witness ==
  /\ Len(session.logs) = MaxLogs
  /\ session.logs[1] = 3
  /\ session.logs[MaxLogs] = MaxLogs + 2
  /\ file.logs = session.logs

Cleaned == returned.op = "cleanup"

\* The Sessions a cleanup is to delete: last updated more than maxAgeDays
\* days before the day of the call, and not running.
Old ==
  {id \in DOMAIN returned.stored :
     /\ returned.now - returned.stored[id].updatedAt > returned.maxAgeDays
     /\ returned.stored[id].status # "running"}

\* C29: cleanup(maxAgeDays) deletes exactly the Sessions last updated before
\* the age threshold whose status is not running, leaves the others as they
\* were and returns the count of the deleted; no running Session and no
\* Session newer than the threshold is deleted.
C29_CleanupDeletesOldNotRunning ==
  Cleaned =>
    /\ DOMAIN returned.result.stored = DOMAIN returned.stored \ Old
    /\ \A id \in DOMAIN returned.result.stored :
         returned.result.stored[id] = returned.stored[id]
    /\ returned.result.deleted = Cardinality(Old)
    /\ \A id \in DOMAIN returned.stored :
         \/ returned.stored[id].status = "running"
         \/ returned.stored[id].updatedAt >= returned.now - returned.maxAgeDays
         => id \in DOMAIN returned.result.stored

\* Three Sessions last updated on day 0, one running, one failed and one
\* completed, and a cleanup of one day on day 3: the running one is left.
C29_Witness ==
  /\ Cleaned
  /\ returned.maxAgeDays = 1
  /\ DOMAIN returned.stored = 1..3
  /\ \A id \in 1..3 : returned.stored[id].updatedAt = 0
  /\ returned.stored[1].status = "running"
  /\ returned.stored[2].status = "failed"
  /\ returned.stored[3].status = "completed"
  /\ DOMAIN returned.result.stored = {1}
  /\ returned.result.deleted = 2

\* C31: a Run started with options.createPR = false (--no-pr) never asks
\* for a pull request, whatever the createPR option of its definition says.
C31_NoPRWhenDisabled ==
  \A r \in RunIds :
    runs[r].pc = "pr" /\ ~runs[r].resumed => runs[r].options.createPR

\* The status of the task of agent a's current execution in Run r.
TaskOf(r, a) == runs[r].agentExecutions[a][runs[r].proc[a].exec].task

\* C32: every status change the engine asks of a task it created is a valid
\* transition of the task store: completeTask when the Agent Runner has
\* answered, failTask when the execution has failed with a task created.
C32_TaskTransitionsAccepted ==
  [][\A r \in RunIds, a \in AgentType :
       /\ (\E artifacts \in BOOLEAN : RunnerResolved(r, a, artifacts)) =>
            isValidStatusTransition(TaskOf(r, a), "completed")
       /\ RunnerRejected(r, a) \/ CommitRejected(r, a) =>
            \/ TaskOf(r, a) = "none"
            \/ isValidStatusTransition(TaskOf(r, a), "failed")]_vars

\* C33: the tier hint passed to the Agent Runner for an execution is the
\* tier selected for the agent tag and the run context, the one recorded on
\* the AgentExecution.
C33_HintIsSelectedTier ==
  \A r \in RunIds : \A a \in AgentType :
    runs[r].proc[a].pc = "running" =>
      runs[r].proc[a].modelArg =
        getModelCliArg(runs[r].agentExecutions[a][runs[r].proc[a].exec].model)

\* The moves of an AgentExecution's status.
ExecutionMoves ==
  {<<"spawning", "running">>, <<"running", "completed">>,
   <<"spawning", "failed">>, <<"running", "failed">>}

\* C34: an AgentExecution record moves only spawning -> running ->
\* completed, or to failed from spawning or running; completed and failed
\* are final, and a retry adds a record and revives none.
C34_ExecutionStatusMoves ==
  [][\A r \in RunIds : runs'[r].pc # "gone" =>
       \A a \in AgentType :
         /\ Len(runs'[r].agentExecutions[a]) >= Len(runs[r].agentExecutions[a])
         /\ \A k \in 1..Len(runs[r].agentExecutions[a]) :
              LET old == runs[r].agentExecutions[a][k].status
                  new == runs'[r].agentExecutions[a][k].status
              IN old = new \/ <<old, new>> \in ExecutionMoves]_vars

\* The executions of Run R that are spawning or running: <<agent, index>>.
LiveExecutions(R) ==
  UNION {{<<a, k>> : k \in {j \in 1..Len(R.agentExecutions[a]) :
                             R.agentExecutions[a][j].status
                               \in {"spawning", "running"}}} :
           a \in AgentType}

\* The agents listed before b in a stage.
ListedBefore(stage, b) ==
  {stage.agents[i] : i \in {j \in 1..Len(stage.agents) :
                              \E k \in (j + 1)..Len(stage.agents) :
                                stage.agents[k] = b}}

InSequentialStage(R) ==
  /\ R.pc = "stage"
  /\ StageOf(R).executionMode = "sequential"

\* C35: in a sequential stage at most one AgentExecution of the Run is
\* spawning or running; an execution of an agent begins only when every
\* agent listed before it in the stage has completed, so the agents start
\* in the order of the list, each one settles with its retries before the
\* next starts, and none starts after one before it has failed for good.
C35_SequentialStage ==
  [][\A r \in 1..Len(runs') : InSequentialStage(runs'[r]) =>
       /\ Cardinality(LiveExecutions(runs'[r])) <= 1
       /\ \A b \in AgentType :
            Len(runs'[r].agentExecutions[b]) >
              (IF r \in RunIds THEN Len(runs[r].agentExecutions[b]) ELSE 0)
            => ListedBefore(StageOf(runs'[r]), b)
                 \subseteq runs'[r].completedAgents]_vars

\* UIUX, the second agent of a sequential stage, is running after PM, the
\* first one, has completed.
C35_Witness ==
  \E r \in RunIds :
    /\ runs[r].workflowId = "CUSTOM_SEQUENTIAL"
    /\ InSequentialStage(runs[r]) /\ runs[r].currentStageIndex = 0
    /\ "PM" \in runs[r].completedAgents
    /\ LiveExecutions(runs[r]) = {<<"UIUX", 1>>}

\* The agents whose context keys (output key, retry counter) differ
\* between two values of a Run.
ContextKeysChanged(R, Q) ==
  {a \in AgentType : \/ (a \in R.outputs) # (a \in Q.outputs)
                     \/ R.retries[a] # Q.retries[a]}

\* The context keys of agent a hold what a's own executions in the Run
\* have done, whatever the other agents did and in whatever order: the
\* output key is there exactly when a has completed in this Run, and the
\* counter is the number of a's executions that were retried.
ContextByAgent(R) ==
  \A a \in AgentType :
    /\ a \in R.outputs <=> R.proc[a].pc = "done"
    /\ R.retries[a] = IF R.agentExecutions[a] = <<>> THEN 0
                      ELSE Len(R.agentExecutions[a]) - 1

\* C36: a step changes the context keys of at most one agent of a Run, and
\* that agent is one whose own execution was in flight, so no execution
\* writes another agent's output or counter; and the context is at every
\* moment a function of each agent's own history, so it does not depend on
\* the order in which the agents of a parallel stage took their steps.
C36_OwnContextKeysOnly ==
  [][\A r \in 1..Len(runs') : runs'[r].pc # "gone" =>
       /\ ContextByAgent(runs'[r])
       /\ r \in RunIds =>
            LET changed == ContextKeysChanged(runs[r], runs'[r])
            IN /\ Cardinality(changed) <= 1
               /\ \A a \in changed :
                    runs[r].proc[a].pc \in {"running", "commit"}]_vars

\* Two agents of a parallel stage are in flight together after one of
\* them was retried, and a third step has written the other one's output
\* while the first is still executing.
C36_Witness ==
  \E r \in RunIds : \E a, b \in AgentType :
    /\ a # b
    /\ runs[r].pc = "stage"
    /\ StageOf(runs[r]).executionMode = "parallel"
    /\ {a, b} \subseteq Range(StageOf(runs[r]).agents)
    /\ a \in runs[r].outputs
    /\ runs[r].proc[b].pc = "running"
    /\ runs[r].retries[b] = 1

\* C37: whenever isResumable is true of the Session, restore (and with it
\* resumeWorkflow) does not raise; a failed Session without a checkpoint
\* whose completedAgents list is not empty is such a Session.
C37_ResumableRestores ==
  isResumable(session) => restoreOutcome(session) = "restored"

\* C38: once cancelWorkflow has marked the Session failed while a stage
\* of the Run was in flight, the end of that stage (the last one included)
\* neither takes the Session out of failed nor sends the cancelled Run on
\* to request the pull request.
C38_CancelledStaysFailed ==
  [][\A r \in RunIds :
       /\ runs[r].status = "cancelled" /\ runs[r].pc = "stage"
       /\ runs'[r].pc # "gone"
       /\ Len(runs') = Len(runs)
       => /\ session.status = "failed" => session'.status = "failed"
          /\ runs[r].pc # "pr" => runs'[r].pc # "pr"]_vars

\* The Run that works on the Session: the last one created.
LatestRun == runs[Len(runs)]

\* C39: the agents of the Session's completedAgents list, in memory and
\* in the file, are those of the completedAgents set of the Run that works
\* on the Session, and the list names no agent twice; so a Run resumed at
\* any point starts with exactly the agents that had completed.
C39_CompletedAgentsAgree ==
  runs # <<>> /\ LatestRun.pc # "gone" =>
    /\ Members(session.completedAgents) = LatestRun.completedAgents
    /\ Members(file.completedAgents) = LatestRun.completedAgents
    /\ \A a \in AgentType : session.completedAgents[a] <= 1
    /\ \A a \in AgentType : file.completedAgents[a] <= 1

\* A Run resumed from a checkpoint has completed an agent of its own after
\* those it inherited, in a stage that is not yet checkpointed.
C39_Witness ==
  /\ runs # <<>> /\ LatestRun.resumed /\ LatestRun.pc = "stage"
  /\ LatestRun.outputs # {}
  /\ LatestRun.outputs # LatestRun.completedAgents
  /\ Members(session.completedAgents) = LatestRun.completedAgents

\* C40: over the life of the Session the stage indices of its checkpoints
\* are strictly increasing (so no stage is checkpointed twice), its current
\* stage is the last checkpoint's stage index + 1, or 0 without one, and a
\* completed Session has exactly one checkpoint for each stage of its
\* definition.
C40_CheckpointsFollowStages ==
  session.status # "none" =>
    LET cps == session.checkpoints
        n == Len(cps)
        stages == DefinitionOf(session.workflowId).stages
    IN /\ \A k \in 1..(n - 1) : cps[k].stageIndex < cps[k + 1].stageIndex
       /\ session.currentStage = IF n = 0 THEN 0 ELSE cps[n].stageIndex + 1
       /\ session.status = "completed" =>
            /\ n = Len(stages)
            /\ \A i \in 0..(Len(stages) - 1) :
                 Cardinality({k \in 1..n : cps[k].stageIndex = i}) = 1

\* A Session completed by a resumed Run: its first checkpoints were written
\* by the Run that failed, the others by the Run that resumed it.
C40_Witness ==
  /\ session.status = "completed"
  /\ Len(session.checkpoints) >= 3
  /\ runs # <<>> /\ LatestRun.resumed
  /\ LatestRun.startIndex \in 1..(Len(session.checkpoints) - 1)

====
